---------------------------- MODULE Spec2Model ----------------------------
(***************************************************************************)
(* Model of the authenticated content-mutation pipeline of billard's       *)
(* server.py: HAWK authentication with the nonce store, the fixed-window   *)
(* rate limiter, the article sanitizer, and the upload / remove handlers   *)
(* over the articles directory.                                            *)
(*                                                                         *)
(* Strings of the program are sequences of one-character strings, so that  *)
(* the regular expressions, slices and replacements of the code are        *)
(* computed and not assumed.  JSON values are tagged records.              *)
(***************************************************************************)
EXTENDS Integers, Sequences, FiniteSets, TLC

(***************************************************************************)
(* Characters and strings                                                  *)
(***************************************************************************)
UpperChars == <<"A","B","C","D","E","F","G","H","I","J","K","L","M",
                "N","O","P","Q","R","S","T","U","V","W","X","Y","Z">>

LowerChars == <<"a","b","c","d","e","f","g","h","i","j","k","l","m",
                "n","o","p","q","r","s","t","u","v","w","x","y","z">>

DigitChars == <<"0","1","2","3","4","5","6","7","8","9">>

Range(s) == { s[i] : i \in DOMAIN s }

UpperSet == Range(UpperChars)

LowerSet == Range(LowerChars)

DigitSet == Range(DigitChars)

IsUpper(c) == c \in UpperSet

IsLower(c) == c \in LowerSet

IsDigit(c) == c \in DigitSet

\* str.lower() on one character (ASCII letters; everything else is kept)
LowerMap == [c \in UpperSet |->
                LowerChars[CHOOSE i \in DOMAIN UpperChars : UpperChars[i] = c]]

LowerChar(c) == IF IsUpper(c) THEN LowerMap[c] ELSE c

\* str.lower()
Lower(s) == [i \in DOMAIN s |-> LowerChar(s[i])]

\* int() of one decimal digit
DigitVal(c) == (CHOOSE i \in DOMAIN DigitChars : DigitChars[i] = c) - 1

\* int() of a non-empty string of decimal digits
RECURSIVE IntOf(_)
IntOf(s) ==
    IF Len(s) = 0 THEN 0
    ELSE 10 * IntOf(SubSeq(s, 1, Len(s) - 1)) + DigitVal(s[Len(s)])

\* str() of a natural number
RECURSIVE StrOf(_)
StrOf(n) ==
    IF n < 10 THEN <<DigitChars[n + 1]>>
    ELSE StrOf(n \div 10) \o <<DigitChars[(n % 10) + 1]>>

\* s[:n]
Prefix(s, n) == SubSeq(s, 1, IF Len(s) < n THEN Len(s) ELSE n)

\* s[n:] for 0 <= n
DropFirst(s, n) == SubSeq(s, n + 1, Len(s))

\* s.startswith(p)
StartsWith(s, p) == Len(s) >= Len(p) /\ SubSeq(s, 1, Len(p)) = p

\* s.endswith(p)
EndsWith(s, p) ==
    Len(s) >= Len(p) /\ SubSeq(s, Len(s) - Len(p) + 1, Len(s)) = p

\* p in s, for a non-empty substring p
Contains(s, p) ==
    \E i \in 1..Len(s) : i + Len(p) - 1 <= Len(s) /\ SubSeq(s, i, i + Len(p) - 1) = p

\* s.replace(c, rep) for a one-character pattern c
RECURSIVE ReplaceAll(_, _, _)
ReplaceAll(s, c, rep) ==
    IF Len(s) = 0 THEN <<>>
    ELSE (IF s[1] = c THEN rep ELSE <<s[1]>>) \o ReplaceAll(Tail(s), c, rep)

\* s.strip(c)
RECURSIVE StripLeft(_, _)
StripLeft(s, c) ==
    IF Len(s) > 0 /\ s[1] = c THEN StripLeft(Tail(s), c) ELSE s

RECURSIVE StripRight(_, _)
StripRight(s, c) ==
    IF Len(s) > 0 /\ s[Len(s)] = c
    THEN StripRight(SubSeq(s, 1, Len(s) - 1), c)
    ELSE s

Strip(s, c) == StripRight(StripLeft(s, c), c)

DotJson == <<".","j","s","o","n">>

Untitled == <<"u","n","t","i","t","l","e","d">>

(***************************************************************************)
(* JSON values: request bodies and stored documents.  A dict is a sequence *)
(* of <<key, value>> pairs (insertion order, as in Python), a list is a    *)
(* sequence of values.                                                     *)
(***************************************************************************)
JStr(s) == [t |-> "str", v |-> s]

JNum(n) == [t |-> "num", v |-> n]

JNull == [t |-> "null", v |-> 0]

JList(xs) == [t |-> "list", v |-> xs]

JDict(pairs) == [t |-> "dict", v |-> pairs]

\* Python truth value of a JSON value (`if not data`, `a or b`)
Truthy(x) ==
    CASE x.t = "str"  -> Len(x.v) > 0
      [] x.t = "num"  -> x.v # 0
      [] x.t = "null" -> FALSE
      [] x.t = "list" -> Len(x.v) > 0
      [] x.t = "dict" -> Len(x.v) > 0

\* k in d
HasKey(d, k) == \E i \in DOMAIN d.v : d.v[i][1] = k

\* d.get(k, default)
DictGet(d, k, default) ==
    IF HasKey(d, k)
    THEN d.v[CHOOSE i \in DOMAIN d.v : d.v[i][1] = k][2]
    ELSE default

\* d[k] = x
DictSet(d, k, x) ==
    IF HasKey(d, k)
    THEN JDict([i \in DOMAIN d.v |-> IF d.v[i][1] = k THEN <<k, x>> ELSE d.v[i]])
    ELSE JDict(Append(d.v, <<k, x>>))

(***************************************************************************)
(* Article sanitizer                                                       *)
(***************************************************************************)
\* html.escape(s): the five replacements, "&" first
HtmlEscape(s) ==
    LET s1 == ReplaceAll(s,  "&",  <<"&","a","m","p",";">>)
        s2 == ReplaceAll(s1, "<",  <<"&","l","t",";">>)
        s3 == ReplaceAll(s2, ">",  <<"&","g","t",";">>)
        s4 == ReplaceAll(s3, "\"", <<"&","q","u","o","t",";">>)
    IN  ReplaceAll(s4, "'", <<"&","#","x","2","7",";">>)

\* sanitize_text(s) -> (sanitized_string, changed_flag), on a JSON value
sanitize_text(x) ==
    IF x.t # "str" THEN [val |-> x, changed |-> FALSE]
    ELSE IF "<" \in Range(x.v) \/ ">" \in Range(x.v) \/ "&" \in Range(x.v)
         THEN [val |-> JStr(HtmlEscape(x.v)), changed |-> TRUE]
         ELSE [val |-> x, changed |-> FALSE]

\* The sanitizer with `changed = ch` for `changed = changed or ch`: the flag
\* of the last child wins
RECURSIVE sanitize_last_flag(_)
sanitize_last_flag(obj) ==
    IF obj.t = "dict"
    THEN LET r == [i \in DOMAIN obj.v |-> sanitize_last_flag(obj.v[i][2])] \o <<>>
         IN  [val     |-> JDict([i \in DOMAIN obj.v |-> <<obj.v[i][1], r[i].val>>]),
              changed |-> Len(r) > 0 /\ r[Len(r)].changed]
    ELSE IF obj.t = "list"
    THEN LET r == [i \in DOMAIN obj.v |-> sanitize_last_flag(obj.v[i])] \o <<>>
         IN  [val     |-> JList([i \in DOMAIN obj.v |-> r[i].val]),
              changed |-> Len(r) > 0 /\ r[Len(r)].changed]
    ELSE IF obj.t = "str"
    THEN sanitize_text(obj)
    ELSE [val |-> obj, changed |-> FALSE]

\* sanitize_article_data(obj) -> (sanitized_obj, changed_flag).  The loops
\* over obj.items() and over the list are the sequences r of the children's
\* results (a tuple, so that each child is sanitized once).
RECURSIVE sanitize_article_data(_)
sanitize_article_data(obj) ==
    IF obj.t = "dict"
    THEN LET r == [i \in DOMAIN obj.v |-> sanitize_article_data(obj.v[i][2])] \o <<>>
         IN  [val     |-> JDict([i \in DOMAIN obj.v |-> <<obj.v[i][1], r[i].val>>]),
              changed |-> \E i \in DOMAIN r : r[i].changed]
    ELSE IF obj.t = "list"
    THEN LET r == [i \in DOMAIN obj.v |-> sanitize_article_data(obj.v[i])] \o <<>>
         IN  [val     |-> JList([i \in DOMAIN obj.v |-> r[i].val]),
              changed |-> \E i \in DOMAIN r : r[i].changed]
    ELSE IF obj.t = "str"
    THEN sanitize_text(obj)
    ELSE [val |-> obj, changed |-> FALSE]

(***************************************************************************)
(* datetime.strptime(s, '%B %d, %Y')                                       *)
(***************************************************************************)
MonthNames == <<
    <<"j","a","n","u","a","r","y">>,
    <<"f","e","b","r","u","a","r","y">>,
    <<"m","a","r","c","h">>,
    <<"a","p","r","i","l">>,
    <<"m","a","y">>,
    <<"j","u","n","e">>,
    <<"j","u","l","y">>,
    <<"a","u","g","u","s","t">>,
    <<"s","e","p","t","e","m","b","e","r">>,
    <<"o","c","t","o","b","e","r">>,
    <<"n","o","v","e","m","b","e","r">>,
    <<"d","e","c","e","m","b","e","r">> >>

IsLeap(y) == (y % 4 = 0 /\ y % 100 # 0) \/ y % 400 = 0

DaysInMonth(y, m) ==
    IF m = 2 THEN (IF IsLeap(y) THEN 29 ELSE 28)
    ELSE IF m \in {4, 6, 9, 11} THEN 30 ELSE 31

AllDigits(s) == Len(s) > 0 /\ \A i \in DOMAIN s : IsDigit(s[i])

\* The number of leading characters of s that are blanks / digits
RECURSIVE LeadingSpaces(_)
LeadingSpaces(s) ==
    IF Len(s) > 0 /\ s[1] = " " THEN 1 + LeadingSpaces(Tail(s)) ELSE 0

RECURSIVE LeadingDigits(_)
LeadingDigits(s) ==
    IF Len(s) > 0 /\ IsDigit(s[1]) THEN 1 + LeadingDigits(Tail(s)) ELSE 0

StrptimeError == [ok |-> FALSE, year |-> 0, month |-> 0, day |-> 0]

\* After %B and the blanks: %d is 1..31 written with one or two digits, then
\* the comma, one or more blanks, %Y as four digits and the end of the string;
\* the day must exist in that month of that year, and the year is at least 1
StrptimeDay(m, s) ==
    LET nd == LeadingDigits(s)
        dl == IF nd >= 2 /\ IntOf(SubSeq(s, 1, 2)) \in 1..31 THEN 2 ELSE 1
        dd == SubSeq(s, 1, dl)
        r1 == DropFirst(s, dl)
        sp == LeadingSpaces(DropFirst(r1, 1))
        yy == DropFirst(r1, 1 + sp)
    IN  IF /\ nd >= 1
           /\ IntOf(dd) \in 1..31
           /\ Len(r1) > 0 /\ r1[1] = ","
           /\ sp >= 1
           /\ Len(yy) = 4 /\ AllDigits(yy)
           /\ IntOf(yy) >= 1
           /\ IntOf(dd) <= DaysInMonth(IntOf(yy), m)
        THEN [ok |-> TRUE, year |-> IntOf(yy), month |-> m, day |-> IntOf(dd)]
        ELSE StrptimeError

\* %B: a full month name in any case, then one or more blanks
StrptimeMonths(s) ==
    { m \in 1..12 : /\ Len(s) > Len(MonthNames[m])
                    /\ Lower(SubSeq(s, 1, Len(MonthNames[m]))) = MonthNames[m]
                    /\ s[Len(MonthNames[m]) + 1] = " " }

\* datetime.strptime(s, '%B %d, %Y'): ok = FALSE stands for the ValueError
Strptime(s) ==
    LET ms == StrptimeMonths(s)
    IN  IF ms = {} THEN StrptimeError
        ELSE LET m    == CHOOSE x \in ms : TRUE
                 rest == DropFirst(s, Len(MonthNames[m]))
             IN  StrptimeDay(m, DropFirst(rest, LeadingSpaces(rest)))

(***************************************************************************)
(* Filename encoding (upload) and parsing (listing)                        *)
(***************************************************************************)
\* The character class [A-Za-z0-9_\-] of upload's re.sub
IsNameChar(c) == IsUpper(c) \/ IsLower(c) \/ IsDigit(c) \/ c = "_" \/ c = "-"

\* The character class [A-Za-z0-9_\-\.] of remove's re.sub
IsFileChar(c) == IsNameChar(c) \/ c = "."

SlugCap == 20

\* The name cut to 20 characters before the underscores are stripped
SlugOfCutFirst(raw_name) ==
    LET subbed   == [i \in DOMAIN raw_name |->
                        IF IsNameChar(raw_name[i]) THEN raw_name[i] ELSE "_"]
        cut      == IF Len(subbed) > SlugCap THEN Prefix(subbed, SlugCap) ELSE subbed
        stripped == Strip(cut, "_")
    IN  Lower(IF Len(stripped) = 0 THEN Untitled ELSE stripped)

\* upload: re.sub(r"[^A-Za-z0-9_\-]", "_", raw_name).strip('_') or 'untitled',
\* then .lower(), then the cut to 20 characters
SlugOf(raw_name) ==
    LET subbed   == [i \in DOMAIN raw_name |->
                        IF IsNameChar(raw_name[i]) THEN raw_name[i] ELSE "_"]
        stripped == Strip(subbed, "_")
        name     == Lower(IF Len(stripped) = 0 THEN Untitled ELSE stripped)
    IN  IF Len(name) > SlugCap THEN Prefix(name, SlugCap) ELSE name

\* upload: f"{name}_{month}-{day}.json".lower()
FilenameOf(name, month, day) ==
    Lower(name \o <<"_">> \o StrOf(month) \o <<"-">> \o StrOf(day) \o DotJson)

\* The ways ^(.+)_(\d{1,2})-(\d{1,2})$ matches s: <<month digits, day digits>>
FilenameMatches(s) ==
    { c \in (1..2) \X (1..2) :
        LET dStart == Len(s) - c[2] + 1
            mStart == dStart - 1 - c[1]
        IN  /\ mStart - 1 >= 2
            /\ AllDigits(SubSeq(s, dStart, Len(s)))
            /\ s[dStart - 1] = "-"
            /\ AllDigits(SubSeq(s, mStart, dStart - 2))
            /\ s[mStart - 1] = "_" }

\* parse_article_filename(filename): ok = FALSE stands for None
parse_article_filename(filename) ==
    LET none == [ok |-> FALSE, name |-> <<>>, month |-> 0, day |-> 0]
    IN
    IF ~EndsWith(filename, DotJson) THEN none
    ELSE LET noext == SubSeq(filename, 1, Len(filename) - 5)
             cut   == IF Len(noext) > 20 THEN Prefix(noext, 20) ELSE noext
         IN  IF FilenameMatches(cut) = {} THEN none
             ELSE LET m      == CHOOSE x \in FilenameMatches(cut) : TRUE
                      dStart == Len(cut) - m[2] + 1
                      mStart == dStart - 1 - m[1]
                  IN  [ok    |-> TRUE,
                       name  |-> Lower(SubSeq(cut, 1, mStart - 2)),
                       month |-> IntOf(SubSeq(cut, mStart, dStart - 2)),
                       day   |-> IntOf(SubSeq(cut, dStart, Len(cut)))]

(***************************************************************************)
(* HAWK authentication: mohawk's Receiver with the program's seen_nonce    *)
(***************************************************************************)
NONCE_TTL == 60

\* mohawk's default timestamp_skew, which Receiver(...) is called with
TimestampSkew == 60

HawkKey == "HAWK_KEY"

\* lookup_credentials(creds_id): CREDENTIALS.get(creds_id)
lookup_credentials(creds_id) ==
    IF creds_id = "billard"
    THEN [found |-> TRUE, key |-> HawkKey]
    ELSE [found |-> FALSE, key |-> "none"]

\* The MAC a holder of `key` computes over the normalized request
Mac(key, op, ts, nonce, body) ==
    [key |-> key, op |-> op, ts |-> ts, nonce |-> nonce, body |-> body]

\* The Authorization header a Sender builds
Header(id, key, op, ts, nonce, body) ==
    [id |-> id, ts |-> ts, nonce |-> nonce, mac |-> Mac(key, op, ts, nonce, body)]

\* A request without an Authorization header
NoHeader == [id |-> "", ts |-> 0, nonce |-> 0, mac |-> "none"]

NonceKey(credentials_id, nonce) == <<credentials_id, nonce>>

\* seen_nonce purging a record on the second it expires
seen_nonce_purge_early(store, credentials_id, nonce, t) ==
    LET key    == NonceKey(credentials_id, nonce)
        live   == { n \in DOMAIN store : ~(store[n] <= t) }
        purged == [n \in live |-> store[n]]
    IN  IF key \in live
        THEN [seen |-> TRUE, store |-> purged]
        ELSE [seen  |-> FALSE,
              store |-> [n \in live \cup {key} |->
                            IF n = key THEN t + NONCE_TTL ELSE purged[n]]]

\* seen_nonce(credentials_id, nonce) at time t on store: purge the records
\* with exp < now, report a key that is left, else record it until now + TTL
seen_nonce(store, credentials_id, nonce, t) ==
    LET key    == NonceKey(credentials_id, nonce)
        live   == { n \in DOMAIN store : ~(store[n] < t) }
        purged == [n \in live |-> store[n]]
    IN  IF key \in live
        THEN [seen |-> TRUE, store |-> purged]
        ELSE [seen  |-> FALSE,
              store |-> [n \in live \cup {key} |->
                            IF n = key THEN t + NONCE_TTL ELSE purged[n]]]

Abs(x) == IF x < 0 THEN 0 - x ELSE x

\* Receiver(...) after the MAC: seen_nonce has run, then the timestamp
ReceiverFresh(sn, hdr, t) ==
    IF sn.seen THEN [ok |-> FALSE, store |-> sn.store]
    ELSE IF Abs(hdr.ts - t) > TimestampSkew
         THEN [ok |-> FALSE, store |-> sn.store]
         ELSE [ok |-> TRUE, store |-> sn.store]

\* Receiver(...): missing header, unknown credentials, MAC (which covers the
\* method, the url and the content), then seen_nonce, then the timestamp;
\* ok = FALSE stands for the HawkFail
Receiver(hdr, op, body, store, t) ==
    IF hdr = NoHeader THEN [ok |-> FALSE, store |-> store]
    ELSE IF ~lookup_credentials(hdr.id).found THEN [ok |-> FALSE, store |-> store]
    ELSE IF hdr.mac # Mac(lookup_credentials(hdr.id).key, op, hdr.ts, hdr.nonce, body)
         THEN [ok |-> FALSE, store |-> store]
    ELSE ReceiverFresh(seen_nonce(store, hdr.id, hdr.nonce, t), hdr, t)

(***************************************************************************)
(* Rate limiter                                                            *)
(***************************************************************************)
max_requests == 5

window_seconds == 60

RateKey(client, endpoint) == <<client, endpoint>>

\* The limiter opening a new window on the last second of the old one
rate_limit_early_reset(store, key, t) ==
    LET cur   == IF key \in DOMAIN store THEN store[key]
                 ELSE [count |-> 0, reset |-> t + window_seconds]
        win   == IF t >= cur.reset
                 THEN [count |-> 0, reset |-> t + window_seconds]
                 ELSE cur
    IN  IF win.count >= max_requests
        THEN [allowed |-> FALSE, store |-> store]
        ELSE [allowed |-> TRUE,
              store   |-> [k \in DOMAIN store \cup {key} |->
                              IF k = key
                              THEN [count |-> win.count + 1, reset |-> win.reset]
                              ELSE store[k]]]

\* The limiter counting the requests it refuses
rate_limit_counts_refused(store, key, t) ==
    LET cur   == IF key \in DOMAIN store THEN store[key]
                 ELSE [count |-> 0, reset |-> t + window_seconds]
        win   == IF t > cur.reset
                 THEN [count |-> 0, reset |-> t + window_seconds]
                 ELSE cur
        count == [k \in DOMAIN store \cup {key} |->
                     IF k = key
                     THEN [count |-> win.count + 1, reset |-> win.reset]
                     ELSE store[k]]
    IN  IF win.count >= max_requests
        THEN [allowed |-> FALSE, store |-> count]
        ELSE [allowed |-> TRUE, store |-> count]

\* The limiter refusing only above the ceiling: one request more per window
rate_limit_one_more(store, key, t) ==
    LET cur   == IF key \in DOMAIN store THEN store[key]
                 ELSE [count |-> 0, reset |-> t + window_seconds]
        win   == IF t > cur.reset
                 THEN [count |-> 0, reset |-> t + window_seconds]
                 ELSE cur
    IN  IF win.count > max_requests
        THEN [allowed |-> FALSE, store |-> store]
        ELSE [allowed |-> TRUE,
              store   |-> [k \in DOMAIN store \cup {key} |->
                              IF k = key
                              THEN [count |-> win.count + 1, reset |-> win.reset]
                              ELSE store[k]]]

\* rate_limit(...).wrapped up to the call of f: allowed = FALSE is abort(429)
rate_limit(store, key, t) ==
    LET cur   == IF key \in DOMAIN store THEN store[key]
                 ELSE [count |-> 0, reset |-> t + window_seconds]
        win   == IF t > cur.reset
                 THEN [count |-> 0, reset |-> t + window_seconds]
                 ELSE cur
    IN  IF win.count >= max_requests
        THEN [allowed |-> FALSE, store |-> store]
        ELSE [allowed |-> TRUE,
              store   |-> [k \in DOMAIN store \cup {key} |->
                              IF k = key
                              THEN [count |-> win.count + 1, reset |-> win.reset]
                              ELSE store[k]]]

(***************************************************************************)
(* The articles directory.  A file holds the document written to it and    *)
(* the number of chunks of it that have reached the file; it is whole when *)
(* all Chunks chunks are there.                                            *)
(***************************************************************************)
Chunks == 2

EmptyDir == [dir |-> FALSE, files |-> <<>>]

WholeFile(doc) == [doc |-> doc, len |-> Chunks]

\* os.makedirs(ARTICLES_DIR, exist_ok=True)
Makedirs(f) == [f EXCEPT !.dir = TRUE]

\* the file `name` created or replaced with `content`
PutFile(f, name, content) ==
    [f EXCEPT !.files = [n \in DOMAIN f.files \cup {name} |->
                            IF n = name THEN content ELSE f.files[n]]]

\* A remove that empties the directory
DelAll(f, name) == [f EXCEPT !.files = <<>>]

\* os.remove(name)
DelFile(f, name) ==
    [f EXCEPT !.files = [n \in DOMAIN f.files \ {name} |-> f.files[n]]]

\* A request body that is no JSON at all: get_json() aborts with 400
JBad == [t |-> "bad", v |-> 0]

Pad2(n) == IF n < 10 THEN <<"0">> \o StrOf(n) ELSE StrOf(n)

\* datetime.now().strftime('%H:%M:%S')
TimeOfDay(t) ==
    Pad2((t \div 3600) % 24) \o <<":">> \o Pad2((t \div 60) % 60)
        \o <<":">> \o Pad2(t % 60)

(***************************************************************************)
(* upload(), after the decorators                                          *)
(***************************************************************************)
\* Where upload() stops before it has a document to write: the status the
\* request ends with (500 is an exception no handler catches)
upload_stop(st, tr) ==
    [status |-> st, trace |-> tr, filename |-> <<>>, doc |-> JNull, changed |-> FALSE]

\* upload(), lines 514-515: sanitize_article_data on the stamped document
upload_sanitized(filename, san) ==
    [status |-> 0, trace |-> <<"get_json", "makedirs">>,
     filename |-> filename, doc |-> san.val, changed |-> san.changed]

\* upload(), lines 509-512: the filename, os.makedirs, and the upload time
\* appended to the date of the header
upload_stamp(article_data, header, name, date_str, parsed, t) ==
    IF ~HasKey(article_data, "header")
    THEN upload_stop(500, <<"get_json", "makedirs">>)
    ELSE IF date_str.t # "str"
    THEN upload_stop(500, <<"get_json", "makedirs">>)
    ELSE upload_sanitized(
             FilenameOf(name, IF parsed.ok THEN parsed.month ELSE 1,
                              IF parsed.ok THEN parsed.day ELSE 1),
             sanitize_article_data(
                 DictSet(article_data, "header",
                     DictSet(header, "date",
                         JStr(date_str.v \o <<" ">> \o TimeOfDay(t))))))

\* upload(), lines 496-507: the date of the header, parsed or defaulted
upload_date(article_data, header, name, date_str, t) ==
    upload_stamp(article_data, header, name, date_str,
                 IF date_str.t = "str" THEN Strptime(date_str.v) ELSE StrptimeError, t)

\* upload(), lines 492-495: the name of the file from the title
upload_name(article_data, header, raw_name, t) ==
    IF raw_name.t # "str" THEN upload_stop(500, <<"get_json">>)
    ELSE upload_date(article_data, header, SlugOf(raw_name.v),
                     DictGet(header, "date", JStr(<<>>)), t)

\* header.get('mainHeader') or header.get('name') or 'untitled'
RawName(mainHeader, legacy) ==
    IF Truthy(mainHeader) THEN mainHeader
    ELSE IF Truthy(legacy) THEN legacy
    ELSE JStr(Untitled)

\* upload(), line 490: header = article_data.get('header', {})
upload_header(article_data, header, t) ==
    IF header.t # "dict" THEN upload_stop(500, <<"get_json">>)
    ELSE upload_name(article_data, header,
                     RawName(DictGet(header, "mainHeader", JNull),
                             DictGet(header, "name", JNull)), t)

\* upload() up to and including sanitize_article_data: status 0 when the
\* document is ready to be written
upload_prepare(article_data, t) ==
    IF article_data.t = "bad" THEN upload_stop(400, <<"get_json">>)
    ELSE IF ~Truthy(article_data) THEN upload_stop(400, <<"get_json">>)
    ELSE IF article_data.t # "dict" THEN upload_stop(500, <<"get_json">>)
    ELSE upload_header(article_data, DictGet(article_data, "header", JDict(<<>>)), t)

\* The document written straight to the final path
WriteInPlace(tmp, final) == final

\* The path the document is written to before the commit: the temporary file
\* of tempfile.mkstemp(dir=ARTICLES_DIR, prefix=".upload-", suffix=".tmp")
WritePath(tmp, final) == tmp

\* final_abs_path.startswith(allowed_dir + os.sep) or final_abs_path == allowed_dir
Contained(filename) == "/" \notin Range(filename) /\ "\\" \notin Range(filename)

\* A name mkstemp can return: no file of the directory has it
TempName(k) == <<".","u","p","l","o","a","d","-">> \o StrOf(k) \o <<".","t","m","p">>

\* os.replace(temp_path, final_path), then the finally block
upload_replace(p, written, tmp) ==
    IF ~Contained(p.filename)
    THEN [status |-> 400,
          trace |-> p.trace \o <<"mkstemp", "write", "containment", "remove_tmp">>,
          fs |-> DelFile(written, tmp), sanitized |-> p.changed, file |-> <<>>]
    ELSE [status |-> 201,
          trace |-> p.trace \o <<"mkstemp", "write", "containment", "replace">>,
          fs |-> IF tmp \in DOMAIN written.files
                 THEN DelFile(PutFile(written, p.filename, written.files[tmp]), tmp)
                 ELSE written,
          sanitized |-> p.changed, file |-> p.filename]

\* upload(), lines 519-539, run with nothing in between: mkstemp, json.dump,
\* the containment check, os.replace
upload_write(p, f) ==
    IF p.status # 0
    THEN [status |-> p.status, trace |-> p.trace,
          fs |-> IF Len(p.trace) > 1 THEN Makedirs(f) ELSE f,
          sanitized |-> FALSE, file |-> <<>>]
    ELSE upload_replace(p,
             PutFile(Makedirs(f), WritePath(TempName(0), p.filename), WholeFile(p.doc)),
             TempName(0))

\* upload() run from start to end
upload(article_data, t, f) == upload_write(upload_prepare(article_data, t), f)

(***************************************************************************)
(* remove(), after the decorators                                          *)
(***************************************************************************)
\* re.sub(r"[^A-Za-z0-9_\-\.]+", "", filename)
StripUnsafe(s) == SelectSeq(s, IsFileChar)

\* The guard with the backslash test left out
HasTraversalNoBackslash(s) ==
    "/" \in Range(s) \/ Contains(s, <<".", ".">>)

\* '/' in filename or '\\' in filename or '..' in filename
HasTraversal(s) ==
    "/" \in Range(s) \/ "\\" \in Range(s) \/ Contains(s, <<".", ".">>)

\* The suffix test written as a substring test
HasJsonAnywhere(filename) == Contains(filename, DotJson)

\* filename.endswith('.json')
HasJsonSuffix(filename) == EndsWith(filename, DotJson)

\* the key 'filename' as a Python string
FilenameKey == <<"f","i","l","e","n","a","m","e">>

remove(data, f) ==
    LET end(st, tr, g) == [status |-> st, trace |-> tr, fs |-> g,
                           sanitized |-> FALSE, file |-> <<>>]
    IN
    IF data.t = "bad" THEN end(400, <<"get_json">>, f)
    ELSE IF ~Truthy(data) THEN end(400, <<"get_json">>, f)
    ELSE IF data.t = "num" THEN end(500, <<"get_json">>, f)
    ELSE IF data.t = "str"
    THEN end(IF Contains(data.v, FilenameKey) THEN 500 ELSE 400, <<"get_json">>, f)
    ELSE IF data.t = "list"
    THEN end(IF \E i \in DOMAIN data.v : data.v[i] = JStr(FilenameKey)
             THEN 500 ELSE 400, <<"get_json">>, f)
    ELSE IF ~HasKey(data, "filename") THEN end(400, <<"get_json">>, f)
    ELSE
    LET supplied == DictGet(data, "filename", JNull)
    IN
    IF supplied.t # "str" THEN end(500, <<"get_json">>, f)
    ELSE IF HasTraversal(supplied.v) THEN end(400, <<"get_json", "guard">>, f)
    ELSE
    LET filename == StripUnsafe(supplied.v)
    IN
    IF ~HasJsonSuffix(filename) THEN end(400, <<"get_json", "guard">>, f)
    ELSE IF ~Contained(filename)
    THEN end(400, <<"get_json", "guard", "realpath", "containment">>, f)
    ELSE IF filename \in DOMAIN f.files
    THEN [status |-> 200,
          trace |-> <<"get_json", "guard", "realpath", "containment", "exists", "remove">>,
          fs |-> DelFile(f, filename), sanitized |-> FALSE, file |-> filename]
    ELSE [status |-> 404,
          trace |-> <<"get_json", "guard", "realpath", "containment", "exists">>,
          fs |-> f, sanitized |-> FALSE, file |-> filename]

(***************************************************************************)
(* get_all_articles(): the listing behind /, /work and /article/<slug>     *)
(***************************************************************************)
\* The clock counts the seconds since the start of this year
BaseYear == 2026

\* datetime.now().year
CurrentYear(t) == BaseYear

\* str.title() on one character: a letter after a non-letter is upper case
TitleChar(s, i) ==
    IF i > 1 /\ (IsUpper(s[i - 1]) \/ IsLower(s[i - 1]))
    THEN LowerChar(s[i])
    ELSE IF IsLower(s[i])
         THEN UpperChars[CHOOSE k \in DOMAIN LowerChars : LowerChars[k] = s[i]]
         ELSE s[i]

\* name.replace('_', ' ').title()
FallbackTitle(name) ==
    LET spaced == ReplaceAll(name, "_", <<" ">>)
    IN  [i \in DOMAIN spaced |-> TitleChar(spaced, i)]

FailedTitle ==
    JStr(<<"F","a","i","l","e","d"," ","t","o"," ",
         "l","o","a","d"," ","a","r","t","i","c","l","e"," ","t","i","t","l","e"," ",":","(">>)

\* The dict get_all_articles appends for one file whose name parses
ArticleEntry(f, filename, t) ==
    LET parsed == parse_article_filename(filename)
        file   == f.files[filename]
        data   == file.doc
        failed == [filename |-> filename, slug |-> parsed.name,
                   month |-> parsed.month, day |-> parsed.day,
                   title |-> FailedTitle, year |-> CurrentYear(t)]
    IN
    IF file.len < Chunks \/ data.t # "dict" THEN failed
    ELSE
    LET header == DictGet(data, "header", JDict(<<>>))
    IN
    IF header.t # "dict" THEN failed
    ELSE
    LET title     == DictGet(header, "mainHeader", JStr(FallbackTitle(parsed.name)))
        full_date == DictGet(header, "date", JStr(<<>>))
        pd        == IF full_date.t = "str" THEN Strptime(full_date.v)
                     ELSE StrptimeError
    IN  [filename |-> filename, slug |-> parsed.name,
         month |-> parsed.month, day |-> parsed.day,
         title |-> title,
         year |-> IF Truthy(full_date) /\ pd.ok THEN pd.year ELSE CurrentYear(t)]

\* The sort key (x['year'], x['month'], x['day']) compared as Python tuples
KeyLess(a, b) ==
    \/ a.year < b.year
    \/ a.year = b.year /\ a.month < b.month
    \/ a.year = b.year /\ a.month = b.month /\ a.day < b.day

\* articles.sort(key=..., reverse=True): stable, equal keys keep their order
RECURSIVE SortDesc(_)
SortDesc(xs) ==
    IF Len(xs) = 0 THEN <<>>
    ELSE LET x      == xs[Len(xs)]
             sorted == SortDesc(SubSeq(xs, 1, Len(xs) - 1))
             ahead  == { i \in DOMAIN sorted : ~KeyLess(sorted[i], x) }
             k      == Cardinality(ahead)
         IN  SubSeq(sorted, 1, k) \o <<x>> \o SubSeq(sorted, k + 1, Len(sorted))

\* get_all_articles() when os.listdir returns the names in `order`;
\* ok = FALSE is the IndexError of calendar.month_abbr[month]
get_all_articles(f, order, t) ==
    IF ~f.dir THEN [ok |-> TRUE, articles |-> <<>>]
    ELSE
    LET IsArticle(n) == parse_article_filename(n).ok
        names == SelectSeq(order, IsArticle)
    IN  IF \E i \in DOMAIN names : parse_article_filename(names[i]).month > 12
        THEN [ok |-> FALSE, articles |-> <<>>]
        ELSE [ok |-> TRUE,
              articles |-> SortDesc([i \in DOMAIN names |->
                                        ArticleEntry(f, names[i], t)])]

\* The orders os.listdir can return the names of S in
Orders(S) ==
    { o \in [1..Cardinality(S) -> S] : \A i, j \in DOMAIN o : i # j => o[i] # o[j] }

(***************************************************************************)
(* The decorated handlers: require_hawk_auth(rate_limit(f))                *)
(***************************************************************************)
\* The response of a request that reached the handler
Responded(ns, rs, out) ==
    [status |-> out.status, trace |-> <<"auth", "rate">> \o out.trace,
     ns |-> ns, rs |-> rs, fs |-> out.fs,
     sanitized |-> out.sanitized, file |-> out.file]

\* rate_limit(...).wrapped: abort(429), or count the request and call f
rate_limited(rl, op, body, t, ns, rs, f) ==
    IF ~rl.allowed
    THEN [status |-> 429, trace |-> <<"auth", "rate">>, ns |-> ns,
          rs |-> rl.store, fs |-> f, sanitized |-> FALSE, file |-> <<>>]
    ELSE Responded(ns, rl.store,
                   IF op = "upload" THEN upload(body, t, f) ELSE remove(body, f))

\* The limiter before the authentication: a request is counted, or refused
\* with 429, before its header is looked at
rate_limit_before_auth(auth, op, client, body, t, rs, f) ==
    IF ~rate_limit(rs, RateKey(client, op), t).allowed
    THEN [status |-> 429, trace |-> <<"rate">>, ns |-> auth.store,
          rs |-> rate_limit(rs, RateKey(client, op), t).store,
          fs |-> f, sanitized |-> FALSE, file |-> <<>>]
    ELSE IF ~auth.ok
    THEN [status |-> 401, trace |-> <<"rate", "auth">>, ns |-> auth.store,
          rs |-> rate_limit(rs, RateKey(client, op), t).store,
          fs |-> f, sanitized |-> FALSE, file |-> <<>>]
    ELSE Responded(auth.store, rate_limit(rs, RateKey(client, op), t).store,
                   IF op = "upload" THEN upload(body, t, f) ELSE remove(body, f))

\* require_hawk_auth.decorated_function: abort(401), or call f
require_hawk_auth(auth, op, client, body, t, rs, f) ==
    IF ~auth.ok
    THEN [status |-> 401, trace |-> <<"auth">>, ns |-> auth.store, rs |-> rs,
          fs |-> f, sanitized |-> FALSE, file |-> <<>>]
    ELSE rate_limited(rate_limit(rs, RateKey(client, op), t), op, body, t,
                      auth.store, rs, f)

\* One request served from start to end at time t, on the nonce store ns,
\* the rate store rs and the directory f
Decorated(op, client, hdr, body, t, ns, rs, f) ==
    require_hawk_auth(Receiver(hdr, op, body, ns, t), op, client, body, t, rs, f)

\* The exception Receiver(...) raises for a request, "none" when it returns
HawkFailure(hdr, op, body, store, t) ==
    IF hdr = NoHeader THEN "MissingAuthorization"
    ELSE IF ~lookup_credentials(hdr.id).found THEN "CredentialsLookupError"
    ELSE IF hdr.mac # Mac(lookup_credentials(hdr.id).key, op, hdr.ts, hdr.nonce, body)
         THEN "MacMismatch"
    ELSE IF seen_nonce(store, hdr.id, hdr.nonce, t).seen THEN "AlreadyProcessed"
    ELSE IF Abs(hdr.ts - t) > TimestampSkew THEN "TokenExpired"
    ELSE "none"

\* abort(status): the body of the response is the error page of the status
AbortPage(status) == [page |-> status]

\* A 401 whose body tells which check failed
UnauthorizedWithReason(why) == [page |-> 401, why |-> why]

\* except HawkFail as e: ... abort(401)
Unauthorized(why) == AbortPage(401)

\* The body of the response: jsonify(...) of upload and of remove, or the
\* page of the abort
Reply(status, sanitized, why) ==
    IF status = 401 THEN Unauthorized(why)
    ELSE IF status = 201 THEN [ok |-> TRUE, sanitized |-> sanitized]
    ELSE IF status = 200 THEN [ok |-> TRUE]
    ELSE AbortPage(status)

(***************************************************************************)
(* State                                                                   *)
(***************************************************************************)
VARIABLES
    now,          \* time.time(), in whole seconds
    nonce_store,  \* _nonce_store: nonce key -> expiry
    rate_store,   \* _rate_store: rate key -> (count, reset)
    fs,           \* the articles directory
    proc,         \* the requests inside upload()'s write, one per worker thread
    crashes,      \* the number of times the process was killed
    last,         \* the request answered last and its response
    nreq,         \* the number of requests received
    hist,         \* history: the requests answered, in order
    pub,          \* history: stored filename -> the body it was published from
    arg,          \* the tree handed to sanitize_article_data
    ret,          \* what sanitize_article_data returned for it
    thr           \* the requests inside the decorators, one per handler thread

vars == <<now, nonce_store, rate_store, fs, proc, crashes, last, nreq, hist, pub,
          arg, ret, thr>>

NoRequest ==
    [op |-> "none", client |-> "", hdr |-> NoHeader, body |-> JNull,
     status |-> 0, trace |-> <<>>, sanitized |-> FALSE, file |-> <<>>,
     reply |-> AbortPage(0)]

\* The number of handler threads that are inside the decorators at a time
MaxHandlers == 2

Handlers == 1..MaxHandlers

\* A handler thread between two requests; count and reset are the locals of
\* rate_limit(...).wrapped, status is its last answer, nonce_raced and
\* rate_raced tell whether it met another thread at the lock
Waiting ==
    [pc |-> "idle", hdr |-> NoHeader, count |-> 0, reset |-> 0, status |-> 0,
     nonce_raced |-> FALSE, rate_raced |-> FALSE]

\* The worker threads that serve requests at the same time
Writers == {1, 2}

\* A worker thread that is not inside upload()
Idle ==
    [pc |-> "idle", client |-> "", hdr |-> NoHeader, body |-> JNull,
     p |-> upload_stop(0, <<>>), tmp |-> <<>>, written |-> 0, status |-> 0]

\* sanitize_article_data has not been called
NotCalled == [val |-> JNull, changed |-> FALSE, called |-> FALSE]

Init ==
    /\ now = 0
    /\ nonce_store = <<>>
    /\ rate_store = <<>>
    /\ fs = EmptyDir
    /\ proc = [w \in Writers |-> Idle]
    /\ crashes = 0
    /\ last = NoRequest
    /\ nreq = 0
    /\ hist = <<>>
    /\ pub = <<>>
    /\ arg = JNull
    /\ ret = NotCalled
    /\ thr = [h \in Handlers |-> Waiting]

\* The history after one more answer
Answered(op, client, hdr, body, status) ==
    Append(hist, [op |-> op, client |-> client, hdr |-> hdr, body |-> body,
                  t |-> now, status |-> status])

\* The published bodies after an answer `status` about `file`
Published(status, file, body) ==
    IF status = 201
    THEN [n \in DOMAIN pub \cup {file} |-> IF n = file THEN body ELSE pub[n]]
    ELSE IF status = 200
    THEN [n \in DOMAIN pub \ {file} |-> pub[n]]
    ELSE pub

\* One request is received and served
Serve(op, client, hdr, body) ==
    \E r \in {Decorated(op, client, hdr, body, now, nonce_store, rate_store, fs)} :
        /\ nonce_store' = r.ns
        /\ rate_store' = r.rs
        /\ fs' = r.fs
        /\ last' = [op |-> op, client |-> client, hdr |-> hdr, body |-> body,
                    status |-> r.status, trace |-> r.trace,
                    sanitized |-> r.sanitized, file |-> r.file,
                    reply |-> Reply(r.status, r.sanitized,
                                    HawkFailure(hdr, op, body, nonce_store, now))]
        /\ nreq' = nreq + 1
        /\ hist' = Answered(op, client, hdr, body, r.status)
        /\ pub' = Published(r.status, r.file, body)
        /\ UNCHANGED <<now, proc, crashes, arg, ret, thr>>

\* POST /admin/upload
Upload(client, hdr, body) == Serve("upload", client, hdr, body)

\* POST /admin/remove
Remove(client, hdr, body) == Serve("remove", client, hdr, body)

\* The clock advances to the next of the instants
Tick(instants) ==
    /\ \E t \in instants :
           /\ t > now
           /\ \A u \in instants : u > now => t <= u
           /\ now' = t
    /\ UNCHANGED <<nonce_store, rate_store, fs, proc, crashes, last, nreq, hist,
                   pub, arg, ret, thr>>

(***************************************************************************)
(* Requests the clients send                                               *)
(***************************************************************************)
\* An article as uploader.py posts it: a header and sections of free text
Article(titleKey, title, date, text) ==
    JDict(<< <<"header", JDict(<< <<titleKey, JStr(title)>>,
                                  <<"date", JStr(date)>> >>)>>,
             <<"sections", JList(<< JDict(<< <<"id", JNum(1)>>,
                                             <<"content", JList(<<JStr(text)>>)>> >>) >>)>> >>)

TitleFirst ==
    <<"M","y"," ","F","i","r","s","t"," ","P","o","s","t">>

TitleNew ==
    <<"N","e","w"," ","Y","e","a","r">>

TitleLong ==
    <<"T","h","e"," ","Q","u","i","c","k"," ","B","r","o","w","n"," ","F",
        "o","x"," ","J","u","m","p","s">>

DateFirst ==
    <<"D","e","c","e","m","b","e","r"," ","2","4",","," ","2","0","2",
        "4">>

DateNew ==
    <<"J","a","n","u","a","r","y"," ","5",","," ","2","0","2","5">>

DateBad ==
    <<"S","m","a","r","c","h"," ","1","3",","," ","2","0","2","4">>

TextA ==
    <<"i","f"," ","a","<","b"," ","t","h","e","n"," ","\"","x","\"">>

TextB ==
    <<"i","f"," ","a","<","c"," ","t","h","e","n"," ","\"","x","\"">>

TextPlain ==
    <<"p","l","a","i","n"," ","t","e","x","t">>

\* The bodies posted to /admin/upload
UploadBodies == <<
    Article("mainHeader", TitleFirst, DateFirst, TextA),
    Article("mainHeader", TitleFirst, DateFirst, TextB),
    Article("mainHeader", TitleNew, DateNew, TextPlain),
    Article("mainHeader", TitleLong, DateBad, TextA),
    Article("mainHeader", TitleLong, DateBad, TextB),
    JDict(<< <<"title", JStr(TitleNew)>> >>),
    JDict(<< <<"header", JDict(<<>>)>> >>) >>

NameFirst ==
    <<"m","y","_","f","i","r","s","t","_","p","o","s","t","_","1","2","-",
        "2","4",".","j","s","o","n">>

NameLong ==
    <<"t","h","e","_","q","u","i","c","k","_","b","r","o","w","n","_","f",
        "o","x","_","_","1","-","1",".","j","s","o","n">>

RemoveOf(filename) == JDict(<< <<"filename", JStr(filename)>> >>)

\* The bodies posted to /admin/remove
RemoveBodies == <<
    RemoveOf(NameFirst),
    RemoveOf(NameLong),
    RemoveOf(NameFirst \o <<"!">>),
    RemoveOf(NameFirst \o <<".", "b", "a", "k">>),
    RemoveOf(<<"/">> \o NameFirst),
    RemoveOf(<<"\\">> \o NameFirst),
    RemoveOf(<<".", ".">> \o NameFirst),
    JDict(<< <<"name", JStr(NameFirst)>> >>) >>

Client == "10.0.0.1"

\* The header a Sender holding the key builds for this request, with a nonce
\* no request has carried before
FreshHeader(op, body) == Header("billard", HawkKey, op, now, nreq + 1, body)

(***************************************************************************)
(* Spec: one client publishes and removes articles                         *)
(***************************************************************************)
MaxRequests == 3

\* The instants the clock of Spec stops at
Later == {window_seconds + 1}

Next ==
    \/ \E i \in DOMAIN UploadBodies :
          /\ nreq < MaxRequests
          /\ Upload(Client, FreshHeader("upload", UploadBodies[i]), UploadBodies[i])
    \/ \E i \in DOMAIN RemoveBodies :
          /\ nreq < MaxRequests
          /\ Remove(Client, FreshHeader("remove", RemoveBodies[i]), RemoveBodies[i])
    \/ Tick(Later)

Spec == Init /\ [][Next]_vars

(***************************************************************************)
(* Claims about remove's filename validation                               *)
(***************************************************************************)
\* The request served last reached the handler of `op`: it was neither
\* refused by authentication nor throttled
Reached(r, op) == r.op = op /\ r.status \notin {0, 401, 429}

\* The body carries a filename that is a string
HasFilename(body) ==
    /\ body.t = "dict"
    /\ HasKey(body, "filename")
    /\ DictGet(body, "filename", JNull).t = "str"

Supplied(body) == DictGet(body, "filename", JNull).v

\* The filename with every character outside A-Z a-z 0-9 _ - . dropped
SafePart(s) == SelectSeq(s, LAMBDA c : IsFileChar(c))

\* C4, as claimed: an authenticated, non-throttled remove request whose
\* supplied filename does not end in .json is answered 400 and touches no file.
C4_SuppliedNotJson ==
    [][ (/\ nreq' # nreq
         /\ Reached(last', "remove")
         /\ HasFilename(last'.body)
         /\ ~EndsWith(Supplied(last'.body), DotJson))
        => (last'.status = 400 /\ fs' = fs) ]_vars

\* C4, amended: an authenticated, non-throttled remove request whose supplied
\* filename, once the characters outside A-Z a-z 0-9 _ - . are stripped from
\* it, does not end in .json is answered 400 and touches no file.
C4_StrippedNotJson ==
    [][ (/\ nreq' # nreq
         /\ Reached(last', "remove")
         /\ HasFilename(last'.body)
         /\ ~EndsWith(SafePart(Supplied(last'.body)), DotJson))
        => (last'.status = 400 /\ fs' = fs) ]_vars

\* A remove request for a name without the suffix was refused while the
\* directory held an article
C4_Witness ==
    /\ Reached(last, "remove")
    /\ HasFilename(last.body)
    /\ ~EndsWith(SafePart(Supplied(last.body)), DotJson)
    /\ ~HasTraversal(Supplied(last.body))
    /\ last.status = 400
    /\ DOMAIN fs.files # {}

\* The calls of remove() that reach the filesystem
FsCalls == {"realpath", "exists", "remove"}

\* s contains "..", "/" or "\"
Traverses(s) ==
    \E i \in DOMAIN s :
        \/ s[i] = "/"
        \/ s[i] = "\\"
        \/ (s[i] = "." /\ i < Len(s) /\ s[i + 1] = ".")

\* C6: a remove request whose filename contains "..", "/" or "\" is answered
\* 400 and no filesystem call (path resolution, existence check, delete) was
\* made for it.
C6_TraversalRejectedFirst ==
    (/\ Reached(last, "remove")
     /\ HasFilename(last.body)
     /\ Traverses(Supplied(last.body)))
    => (/\ last.status = 400
        /\ \A i \in DOMAIN last.trace : last.trace[i] \notin FsCalls)

\* A filename with a separator that names, once stripped, a stored article
C6_Witness ==
    /\ Reached(last, "remove")
    /\ HasFilename(last.body)
    /\ Traverses(Supplied(last.body))
    /\ last.status = 400
    /\ SafePart(Supplied(last.body)) \in DOMAIN fs.files

(***************************************************************************)
(* Claims about the listing                                                *)
(***************************************************************************)
\* The date string a document was published with
SubmittedDate(body) ==
    DictGet(DictGet(body, "header", JDict(<<>>)), "date", JStr(<<>>))

\* (year, month, day) of the date the stored item `filename` was published
\* with; the current year, month 1 and day 1 where the date does not parse
PublishedOn(filename) ==
    LET d  == SubmittedDate(pub[filename])
        pd == IF d.t = "str" THEN Strptime(d.v) ELSE StrptimeError
    IN  IF pd.ok THEN [year |-> pd.year, month |-> pd.month, day |-> pd.day]
        ELSE [year |-> CurrentYear(now), month |-> 1, day |-> 1]

Older(a, b) ==
    \/ a.year < b.year
    \/ a.year = b.year /\ a.month < b.month
    \/ a.year = b.year /\ a.month = b.month /\ a.day < b.day

\* C7, as claimed: whatever order the directory is enumerated in, the listing
\* is in descending order of the (year, month, day) each stored item was
\* published with: no entry is older than one that follows it.
C7_ListingNewestFirst ==
    \A order \in Orders(DOMAIN fs.files) :
        \E r \in {get_all_articles(fs, order, now)} :
            /\ r.ok
            /\ \A i, j \in DOMAIN r.articles :
                   i < j => ~Older(PublishedOn(r.articles[i].filename),
                                   PublishedOn(r.articles[j].filename))

\* Two documents with the same header (title and date) and different content
SameTitleAndDate(b1, b2) ==
    /\ b1 # b2
    /\ b1.t = "dict" /\ b2.t = "dict"
    /\ HasKey(b1, "header") /\ HasKey(b2, "header")
    /\ DictGet(b1, "header", JNull) = DictGet(b2, "header", JNull)

\* The entries of the listing that stand for the file `filename`
EntriesFor(r, filename) ==
    { i \in DOMAIN r.articles : r.articles[i].filename = filename }

\* C9, as claimed: when a publish succeeds right after a successful publish
\* of a document with the same title and date and other content, the two
\* share one filename, the store has gained no item, the item holds the
\* sections of the second document (sanitized), and the listing, whatever
\* the order of enumeration, has exactly one entry for it.
C9_RepublishOneEntry ==
    [][ (/\ nreq' # nreq
         /\ last.op = "upload" /\ last.status = 201
         /\ last'.op = "upload" /\ last'.status = 201
         /\ SameTitleAndDate(last.body, last'.body))
        => (/\ last'.file = last.file
            /\ DOMAIN fs'.files = DOMAIN fs.files
            /\ last'.file \in DOMAIN fs'.files
            /\ DictGet(fs'.files[last'.file].doc, "sections", JNull)
                   = sanitize_article_data(DictGet(last'.body, "sections", JNull)).val
            /\ \A order \in Orders(DOMAIN fs'.files) :
                   Cardinality(EntriesFor(get_all_articles(fs', order, now'),
                                          last'.file)) = 1) ]_vars

(***************************************************************************)
(* SpecAuth: headers that are fresh, replayed, forged or off the clock     *)
(***************************************************************************)
MaxAuthRequests == 3

\* The instants the clock stops at: the last second of a nonce record and of
\* a rate window that began at 0, and the first second after it
Edges == {NONCE_TTL, NONCE_TTL + 1}

\* The body each endpoint is posted in SpecAuth and SpecRate
BodyOf(op) == IF op = "upload" THEN UploadBodies[1] ELSE RemoveOf(NameFirst)

Endpoints == {"upload", "remove"}

\* A Sender that holds the key signs a new request
SendFresh ==
    \E op \in Endpoints :
        /\ nreq < MaxAuthRequests
        /\ Serve(op, Client, FreshHeader(op, BodyOf(op)), BodyOf(op))

\* Someone who saw an answered request sends it again, header and all
Replay ==
    \E i \in DOMAIN hist :
        /\ nreq < MaxAuthRequests
        /\ Serve(hist[i].op, hist[i].client, hist[i].hdr, hist[i].body)

\* Headers of senders without the key or without a known id, and none at all
Forged(op) ==
    { Header("billard", "WRONG_KEY", op, now, nreq + 1, BodyOf(op)),
      Header("mallory", HawkKey, op, now, nreq + 1, BodyOf(op)),
      NoHeader }

Forge ==
    \E op \in Endpoints : \E hdr \in Forged(op) :
        /\ nreq < MaxAuthRequests
        /\ Serve(op, Client, hdr, BodyOf(op))

\* The offsets of the clocks of senders whose clock is wrong
SkewOffsets == {0 - 61, 0 - 60, 60, 61}

\* A Sender that holds the key and has a clock that is off signs a new request
SendSkewed ==
    \E op \in Endpoints : \E d \in SkewOffsets :
        /\ nreq < MaxAuthRequests
        /\ now + d >= 0
        /\ Serve(op, Client,
                 Header("billard", HawkKey, op, now + d, nreq + 1, BodyOf(op)),
                 BodyOf(op))

NextAuth ==
    \/ SendFresh
    \/ Replay
    \/ Forge
    \/ SendSkewed
    \/ Tick(Edges)

SpecAuth == Init /\ [][NextAuth]_vars

\* The j-th answered request carried a valid header: a known credential, the
\* MAC of the key holder, a timestamp within the skew of the server's clock,
\* and a nonce no earlier request carried with that credential
ValidAt(j) ==
    /\ hist[j].hdr.id = "billard"
    /\ hist[j].hdr.mac = Mac(HawkKey, hist[j].op, hist[j].hdr.ts, hist[j].hdr.nonce,
                             hist[j].body)
    /\ hist[j].hdr.ts - hist[j].t <= TimestampSkew
    /\ hist[j].t - hist[j].hdr.ts <= TimestampSkew
    /\ \A i \in 1..(j - 1) :
           ~(hist[i].hdr.id = hist[j].hdr.id /\ hist[i].hdr.nonce = hist[j].hdr.nonce)

\* C1: the first request that carries a valid header is let through (its
\* answer is not 401), and every later request that carries the identical
\* header no later than NONCE_TTL seconds after it is answered 401.
C1_AuthenticatesOnce ==
    \A j \in DOMAIN hist :
        ValidAt(j) =>
            /\ hist[j].status # 401
            /\ \A k \in DOMAIN hist :
                   (/\ k > j
                    /\ hist[k].hdr = hist[j].hdr
                    /\ hist[k].t <= hist[j].t + NONCE_TTL)
                   => hist[k].status = 401

\* A valid header was let through, and its replay was refused on the last
\* second of the nonce record's life
C1_Witness ==
    \E j, k \in DOMAIN hist :
        /\ j < k
        /\ ValidAt(j)
        /\ hist[j].status # 401
        /\ hist[k].hdr = hist[j].hdr
        /\ hist[k].op = hist[j].op /\ hist[k].body = hist[j].body
        /\ hist[k].t = hist[j].t + NONCE_TTL
        /\ hist[k].status = 401

(***************************************************************************)
(* SpecRate: two clients send signed requests until the limiter refuses    *)
(***************************************************************************)
MaxRateRequests == 7

OtherClient == "10.0.0.2"

\* Client publishes
Publish ==
    /\ nreq < MaxRateRequests
    /\ Upload(Client, FreshHeader("upload", BodyOf("upload")), BodyOf("upload"))

\* OtherClient publishes
PublishOther ==
    /\ nreq < MaxRateRequests
    /\ Upload(OtherClient, FreshHeader("upload", BodyOf("upload")), BodyOf("upload"))

\* Client removes
Unpublish ==
    /\ nreq < MaxRateRequests
    /\ Remove(Client, FreshHeader("remove", BodyOf("remove")), BodyOf("remove"))

NextRate ==
    \/ Publish
    \/ PublishOther
    \/ Unpublish
    \/ Tick(Edges)

SpecRate == Init /\ [][NextRate]_vars

\* The j-th answered request reached the limiter under the key of h
SameKey(h, j) ==
    /\ hist[j].status # 401
    /\ hist[j].client = h.client
    /\ hist[j].op = h.op

\* The time the window began that the j-th answered request fell in: the
\* time of the first request of its key, or of the first one that came after
\* the window before had ended
RECURSIVE WindowStart(_)
WindowStart(j) ==
    LET before == { i \in 1..(j - 1) : SameKey(hist[j], i) }
    IN  IF before = {} THEN hist[j].t
        ELSE LET prev  == CHOOSE i \in before : \A k \in before : k <= i
                 start == WindowStart(prev)
             IN  IF hist[j].t > start + window_seconds THEN hist[j].t ELSE start

\* The place of the j-th answered request among those of its key in its window
PlaceInWindow(j) ==
    Cardinality({ i \in 1..j : SameKey(hist[j], i) /\ WindowStart(i) = WindowStart(j) })

\* C2: of the requests that reach the limiter under one key within one
\* window, the first max_requests are allowed and the next one is answered
\* 429; the first request after the end of the window is allowed again.
C2_CeilingPerWindow ==
    \A j \in DOMAIN hist :
        hist[j].status # 401 =>
            /\ PlaceInWindow(j) <= max_requests => hist[j].status # 429
            /\ PlaceInWindow(j) = max_requests + 1 => hist[j].status = 429
            /\ (\E i \in 1..(j - 1) : SameKey(hist[j], i)
                                       /\ hist[j].t > WindowStart(i) + window_seconds
                                       /\ WindowStart(j) = hist[j].t
                                       /\ PlaceInWindow(j) = 1)
               => hist[j].status # 429

\* One key was allowed max_requests times, refused on the last second of the
\* window, and allowed again on the first second after it
C2_Witness ==
    \E j, k \in DOMAIN hist :
        /\ j < k
        /\ SameKey(hist[k], j)
        /\ PlaceInWindow(j) = max_requests + 1
        /\ hist[j].status = 429
        /\ hist[j].t = WindowStart(j) + window_seconds
        /\ hist[k].t > WindowStart(j) + window_seconds
        /\ hist[k].status # 429

\* The request answered in this step is a publish that the limiter refused
ThrottledPublish ==
    /\ nreq' # nreq
    /\ last'.op = "upload"
    /\ last'.status = 429

\* C3, as claimed: a publish answered 429 leaves the content store, the
\* rate-window table and the nonce cache exactly as they were.
C3_ThrottledNoChange ==
    [][ ThrottledPublish
        => (fs' = fs /\ rate_store' = rate_store /\ nonce_store' = nonce_store) ]_vars

\* C3, amended: a publish answered 429 leaves the content store and the
\* rate-window table exactly as they were; the nonce cache has gained the
\* nonce of the request and lost only records that had expired.
C3_ThrottledOnlyNonce ==
    [][ ThrottledPublish
        => (/\ fs' = fs
            /\ rate_store' = rate_store
            /\ NonceKey(last'.hdr.id, last'.hdr.nonce) \in DOMAIN nonce_store'
            /\ \A n \in DOMAIN nonce_store' :
                   \/ n = NonceKey(last'.hdr.id, last'.hdr.nonce)
                   \/ (n \in DOMAIN nonce_store /\ nonce_store'[n] = nonce_store[n])
            /\ \A n \in DOMAIN nonce_store :
                   n \notin DOMAIN nonce_store' => nonce_store[n] < now) ]_vars

\* A publish was refused by the limiter while the store held an article, and
\* the nonce of the refused request is in the cache
C3_Witness ==
    /\ last.op = "upload"
    /\ last.status = 429
    /\ DOMAIN fs.files # {}
    /\ NonceKey(last.hdr.id, last.hdr.nonce) \in DOMAIN nonce_store
    /\ rate_store[RateKey(last.client, "upload")].count = max_requests

(***************************************************************************)
(* SpecWrite: upload()'s write, lines 519-539, one system call at a time,  *)
(* on two worker threads, with faults and with kills of the process        *)
(***************************************************************************)
MaxWrites == 3

MaxCrashes == 1

\* The names mkstemp gives out
IsTemp(name) == StartsWith(name, <<".","u","p","l","o","a","d","-">>)

\* The number of a temporary name that no file of the directory has
FreeTemp(f) ==
    CHOOSE k \in 0..Cardinality(DOMAIN f.files) :
        /\ TempName(k) \notin DOMAIN f.files
        /\ \A j \in 0..(k - 1) : TempName(j) \in DOMAIN f.files

\* The answer of worker w goes out and the worker is free again
Respond(w, status, file) ==
    /\ last' = [op |-> "upload", client |-> proc[w].client, hdr |-> proc[w].hdr,
                body |-> proc[w].body, status |-> status,
                trace |-> <<>>, sanitized |-> proc[w].p.changed, file |-> file,
                reply |-> Reply(status, proc[w].p.changed, "none")]
    /\ hist' = Answered("upload", proc[w].client, proc[w].hdr, proc[w].body, status)
    /\ pub' = Published(status, file, proc[w].body)
    /\ proc' = [proc EXCEPT ![w] = Idle]

\* Lines 482-518: worker w takes a publish request through the decorators,
\* the derivation of the filename, makedirs and the sanitizer
Begin(w, client, hdr, body) ==
    /\ proc[w].pc = "idle"
    /\ \E auth \in {Receiver(hdr, "upload", body, nonce_store, now)} :
       \E rl \in {rate_limit(rate_store, RateKey(client, "upload"), now)} :
       \E p \in {upload_prepare(body, now)} :
           /\ auth.ok
           /\ rl.allowed
           /\ p.status = 0
           /\ nonce_store' = auth.store
           /\ rate_store' = rl.store
           /\ fs' = Makedirs(fs)
           /\ proc' = [proc EXCEPT ![w] =
                          [pc |-> "mkstemp", client |-> client, hdr |-> hdr,
                           body |-> body, p |-> p, tmp |-> <<>>, written |-> 0,
                           status |-> 0]]
    /\ nreq' = nreq + 1
    /\ UNCHANGED <<now, crashes, last, hist, pub, arg, ret, thr>>

\* Line 520: tempfile.mkstemp creates an empty file under a new name
Mkstemp(w) ==
    /\ proc[w].pc = "mkstemp"
    /\ \E tmp \in {TempName(FreeTemp(fs))} :
           /\ fs' = PutFile(fs, tmp, [doc |-> JNull, len |-> 0])
           /\ proc' = [proc EXCEPT ![w].pc = "dump", ![w].tmp = tmp]
    /\ UNCHANGED <<now, nonce_store, rate_store, crashes, last, nreq, hist, pub,
                   arg, ret, thr>>

\* Lines 522-523: json.dump writes the next chunk; the file is closed after
\* the last one
Dump(w) ==
    /\ proc[w].pc = "dump"
    /\ fs' = PutFile(fs, WritePath(proc[w].tmp, proc[w].p.filename),
                     [doc |-> proc[w].p.doc, len |-> proc[w].written + 1])
    /\ proc' = [proc EXCEPT ![w].written = proc[w].written + 1,
                            ![w].pc = IF proc[w].written + 1 = Chunks
                                      THEN "check" ELSE "dump"]
    /\ UNCHANGED <<now, nonce_store, rate_store, crashes, last, nreq, hist, pub,
                   arg, ret, thr>>

\* Lines 524-529: the containment check of the final path
Check(w) ==
    /\ proc[w].pc = "check"
    /\ proc' = IF Contained(proc[w].p.filename)
               THEN [proc EXCEPT ![w].pc = "replace"]
               ELSE [proc EXCEPT ![w].pc = "finally", ![w].status = 400]
    /\ UNCHANGED <<now, nonce_store, rate_store, fs, crashes, last, nreq, hist,
                   pub, arg, ret, thr>>

\* Lines 530-539: os.replace(temp_path, final_path), the finally block that
\* finds no temporary file, and the answer
Replace(w) ==
    /\ proc[w].pc = "replace"
    /\ proc[w].tmp \in DOMAIN fs.files
    /\ fs' = DelFile(PutFile(fs, proc[w].p.filename, fs.files[proc[w].tmp]),
                     proc[w].tmp)
    /\ Respond(w, 201, proc[w].p.filename)
    /\ UNCHANGED <<now, nonce_store, rate_store, crashes, nreq, arg, ret, thr>>

\* A system call of lines 521-530 fails (disk full, I/O error): the
\* exception leaves the try block
Fault(w) ==
    /\ proc[w].pc \in {"dump", "check", "replace"}
    /\ proc' = [proc EXCEPT ![w].pc = "finally", ![w].status = 500]
    /\ UNCHANGED <<now, nonce_store, rate_store, fs, crashes, last, nreq, hist,
                   pub, arg, ret, thr>>

\* Lines 531-537: the finally block removes the temporary file; the request
\* is answered with the status of the abort or of the exception
Finally(w) ==
    /\ proc[w].pc = "finally"
    /\ fs' = IF proc[w].tmp \in DOMAIN fs.files THEN DelFile(fs, proc[w].tmp) ELSE fs
    /\ Respond(w, proc[w].status, <<>>)
    /\ UNCHANGED <<now, nonce_store, rate_store, crashes, nreq, arg, ret, thr>>

\* The process is killed and started again: the threads and the two
\* in-memory stores are gone, the directory is as the system calls left it
Kill ==
    /\ crashes < MaxCrashes
    /\ \E w \in Writers : proc[w].pc # "idle"
    /\ crashes' = crashes + 1
    /\ proc' = [w \in Writers |-> Idle]
    /\ nonce_store' = <<>>
    /\ rate_store' = <<>>
    /\ UNCHANGED <<now, fs, last, nreq, hist, pub, arg, ret, thr>>

\* The documents published in SpecWrite: two with one filename, one with another
WriteBodies == <<UploadBodies[1], UploadBodies[2], UploadBodies[3]>>

NextWrite ==
    \/ \E w \in Writers : \E i \in DOMAIN WriteBodies :
          /\ nreq < MaxWrites
          /\ Begin(w, Client, FreshHeader("upload", WriteBodies[i]), WriteBodies[i])
    \/ \E w \in Writers : Mkstemp(w)
    \/ \E w \in Writers : Dump(w)
    \/ \E w \in Writers : Check(w)
    \/ \E w \in Writers : Replace(w)
    \/ \E w \in Writers : Fault(w)
    \/ \E w \in Writers : Finally(w)
    \/ Kill

SpecWrite == Init /\ [][NextWrite]_vars

\* The files under final article filenames
Finals(f) == { n \in DOMAIN f.files : ~IsTemp(n) }

\* Worker w commits in this step: it was about to call os.replace and has
\* answered 201
Commits(w) == proc[w].pc = "replace" /\ proc'[w].pc = "idle"

\* C5: in every step, each file under a final article filename is afterwards
\* either the file that was there before the step, untouched, or the whole
\* document of a publish that called os.replace in this step; before and
\* after the step every such file is whole; and a step that is a fault, the
\* finally block, a kill or anything else but an os.replace leaves the files
\* under final names as they were.
C5_AtomicCommit ==
    [][ /\ \A n \in Finals(fs) : fs.files[n].len = Chunks
        /\ \A n \in Finals(fs') :
               /\ fs'.files[n].len = Chunks
               /\ \/ (n \in Finals(fs) /\ fs'.files[n] = fs.files[n])
                  \/ \E w \in Writers :
                         /\ Commits(w)
                         /\ n = proc[w].p.filename
                         /\ fs'.files[n] = WholeFile(proc[w].p.doc)
        /\ (\A w \in Writers : ~Commits(w))
               => (/\ Finals(fs') = Finals(fs)
                   /\ \A n \in Finals(fs) : fs'.files[n] = fs.files[n]) ]_vars

\* A stored article survived a fault of a second publish to its filename
\* that had written its temporary file, while a third publish was in its write
C5_Witness ==
    \E w, v \in Writers :
        /\ w # v
        /\ last.status = 500
        /\ proc[w].pc = "idle"
        /\ proc[v].pc = "dump" /\ proc[v].written = 1
        /\ proc[v].p.filename = NameFirst
        /\ NameFirst \in DOMAIN fs.files
        /\ fs.files[NameFirst].len = Chunks
        /\ fs.files[NameFirst].doc # proc[v].p.doc
        /\ DictGet(last.body, "header", JNull) = DictGet(pub[NameFirst], "header", JNull)
        /\ last.body # pub[NameFirst]

(***************************************************************************)
(* SpecPublish: documents of many titles and dates are published           *)
(***************************************************************************)
MaxPublishes == 1

PublishTitles == <<
    <<"M","y"," ","F","i","r","s","t"," ","P","o","s","t">>,
    <<"N","e","w"," ","Y","e","a","r">>,
    <<"T","h","e"," ","Q","u","i","c","k"," ","B","r","o","w","n"," ","F","o","x"," ","J","u","m","p","s">>,
    <<"O","l","d","-","N","o","t","e","s"," ","&"," ","M","o","r","e","!">>,
    <<"!","!","!">>,
    <<>>,
    <<"U","P","P","E","R","_","l","o","w","e","r","-","1","2","3">>,
    <<" "," ","p","a","d","d","e","d"," "," ">>,
    <<"a","b","c","d","e","f","g","h","i","j","k","l","m","n","o","p","q","r","s","t">>,
    <<"a","b","c","d","e","f","g","h","i","j","k","l","m","n","o","p","q","r","s","t","u">>,
    <<"_","_","a","_","_">>,
    <<"R","&","D"," ","<","b",">","/","x">> >>

PublishDates == <<
    <<"D","e","c","e","m","b","e","r"," ","2","4",","," ","2","0","2","4">>,
    <<"J","a","n","u","a","r","y"," ","5",","," ","2","0","2","5">>,
    <<"S","m","a","r","c","h"," ","1","3",","," ","2","0","2","4">>,
    <<>>,
    <<"f","e","b","r","u","a","r","y"," ","2","9",","," ","2","0","2","4">>,
    <<"F","e","b","r","u","a","r","y"," ","2","9",","," ","2","0","2","3">>,
    <<"D","e","c","e","m","b","e","r"," ","2","4"," ","2","0","2","4">>,
    <<"D","e","c"," ","2","4",","," ","2","0","2","4">>,
    <<"D","e","c","e","m","b","e","r"," ","2","4",","," ","2","0","2","4"," ">>,
    <<"M","a","y"," "," ","0","7",","," "," ","1","9","9","9">>,
    <<"J","u","n","e"," ","3","1",","," ","2","0","2","4">> >>

\* The ways a header names its title: in mainHeader, in the legacy name, or
\* in name next to an empty mainHeader
HeaderShapes == {"main", "legacy", "both"}

HeaderOf(shape, title, date) ==
    IF shape = "main"
    THEN JDict(<< <<"mainHeader", JStr(title)>>, <<"date", JStr(date)>> >>)
    ELSE IF shape = "legacy"
    THEN JDict(<< <<"name", JStr(title)>>, <<"date", JStr(date)>> >>)
    ELSE JDict(<< <<"mainHeader", JStr(<<>>)>>, <<"name", JStr(title)>>,
                  <<"date", JStr(date)>> >>)

DocOf(shape, title, date) ==
    JDict(<< <<"header", HeaderOf(shape, title, date)>>,
             <<"sections", JList(<<JStr(TextA)>>)>> >>)

PublishAny ==
    \E shape \in HeaderShapes :
    \E i \in DOMAIN PublishTitles : \E j \in DOMAIN PublishDates :
        /\ nreq < MaxPublishes
        /\ Upload(Client,
                  FreshHeader("upload", DocOf(shape, PublishTitles[i], PublishDates[j])),
                  DocOf(shape, PublishTitles[i], PublishDates[j]))

NextPublish == PublishAny \/ Tick(Later)

SpecPublish == Init /\ [][NextPublish]_vars

\* The characters a slug may have
SlugAlphabet == Range(LowerChars) \cup Range(DigitChars) \cup {"_", "-"}

\* The title a document is filed under: header.mainHeader, else header.name,
\* else "untitled"
TitleOf(body) ==
    LET header == DictGet(body, "header", JDict(<<>>))
        main   == DictGet(header, "mainHeader", JStr(<<>>))
        legacy == DictGet(header, "name", JStr(<<>>))
    IN  IF main.v # <<>> THEN main.v
        ELSE IF legacy.v # <<>> THEN legacy.v
        ELSE Untitled

\* The slug of a title: the title from its first to its last letter, digit
\* or hyphen, in lower case, with "_" for every other character, cut to 20
\* characters; "untitled" for a title with no letter, digit or hyphen
ExpectedSlug(title) ==
    LET solid == { i \in DOMAIN title :
                      LowerChar(title[i]) \in SlugAlphabet \ {"_"} }
    IN  IF solid = {} THEN Untitled
        ELSE LET first == CHOOSE i \in solid : \A k \in solid : i <= k
                 final == CHOOSE i \in solid : \A k \in solid : k <= i
                 size  == IF final - first + 1 > 20 THEN 20 ELSE final - first + 1
             IN  [i \in 1..size |->
                     IF LowerChar(title[first + i - 1]) \in SlugAlphabet
                     THEN LowerChar(title[first + i - 1]) ELSE "_"]

\* Month and day of the date a document was published with, 1 and 1 when
\* the date is no `Month D, Year`
ExpectedMonthDay(body) ==
    LET pd == Strptime(SubmittedDate(body).v)
    IN  IF pd.ok THEN <<pd.month, pd.day>> ELSE <<1, 1>>

\* C8: every file committed by a successful publish is named
\* {slug}_{month}-{day}.json, where slug is not empty, has at most 20
\* characters, all of them lower-case letters, digits, "_" or "-", and is the
\* slug of header.mainHeader (else header.name, else "untitled"), and where
\* month and day are those of the parsed date, or 1 and 1; "My First Post"
\* of "December 24, 2024" is stored as my_first_post_12-24.json.
C8_FilenameEncoding ==
    \A n \in DOMAIN pub :
        \E slug \in {ExpectedSlug(TitleOf(pub[n]))} :
        \E md \in {ExpectedMonthDay(pub[n])} :
            /\ n \in DOMAIN fs.files
            /\ n = slug \o <<"_">> \o StrOf(md[1]) \o <<"-">> \o StrOf(md[2]) \o DotJson
            /\ Len(slug) >= 1
            /\ Len(slug) <= 20
            /\ \A i \in DOMAIN slug : slug[i] \in SlugAlphabet
            /\ (TitleOf(pub[n]) = TitleFirst /\ SubmittedDate(pub[n]).v = DateFirst)
                   => n = NameFirst

\* A title of more than 20 characters was published with a date that does
\* not parse
C8_Witness ==
    /\ last.op = "upload"
    /\ last.status = 201
    /\ last.file \in DOMAIN fs.files
    /\ Len(TitleOf(last.body)) > 20
    /\ ~Strptime(SubmittedDate(last.body).v).ok
    /\ Len(last.file) = 20 + 4 + 5

(***************************************************************************)
(* SpecSan: sanitize_article_data called on JSON-like trees                *)
(***************************************************************************)
MaxLeafLen == 2

MaxWidth == 2

Seqs(S, n) == UNION { [1..k -> S] : k \in 0..n }

\* The characters of the string leaves: the three that sanitize_text looks
\* for, a quote that html.escape escapes too, and a letter
SanChars == {"a", "<", ">", "&", "\""}

SanLeaves == { JStr(s) : s \in Seqs(SanChars, MaxLeafLen) } \cup {JNum(7), JNull}

SmallLeaves == {JStr(<<"a">>), JStr(<<"<">>), JStr(<<"a", "&">>), JNum(7), JNull}

\* The keys of the dicts, in the order of insertion; the first has a "<"
SanKeys == <<"k<", "k2", "k3", "k4">>

Keyed(s) == [i \in DOMAIN s |-> <<SanKeys[i], s[i]>>]

\* Lists and dicts of the children in S
Nest(S) ==
    { JList(s) : s \in Seqs(S, MaxWidth) } \cup { JDict(Keyed(s)) : s \in Seqs(S, MaxWidth) }

Shallow == Nest(SmallLeaves)

Mid ==
    { JStr(<<"a">>), JList(<<>>), JList(<<JStr(<<"<">>)>>), JList(<<JStr(<<"a">>)>>),
      JDict(<< <<"k<", JStr(<<"a", "&">>)>> >>), JDict(<< <<"k<", JNum(7)>> >>) }

Deep == Nest(Mid)

Deeper == { JDict(<< <<"header", d>> >>) : d \in Deep }

Trees == SanLeaves \cup Shallow \cup Deep \cup Deeper

InitSan ==
    /\ now = 0
    /\ nonce_store = <<>>
    /\ rate_store = <<>>
    /\ fs = EmptyDir
    /\ proc = [w \in Writers |-> Idle]
    /\ crashes = 0
    /\ last = NoRequest
    /\ nreq = 0
    /\ hist = <<>>
    /\ pub = <<>>
    /\ arg \in Trees
    /\ ret = NotCalled
    /\ thr = [h \in Handlers |-> Waiting]

\* sanitized, changed = sanitize_article_data(arg)
Sanitize ==
    /\ ~ret.called
    /\ \E r \in {sanitize_article_data(arg)} :
           ret' = [val |-> r.val, changed |-> r.changed, called |-> TRUE]
    /\ UNCHANGED <<now, nonce_store, rate_store, fs, proc, crashes, last, nreq,
                   hist, pub, arg, thr>>

NextSan == Sanitize

SpecSan == InitSan /\ [][NextSan]_vars

\* The characters the sanitizer is claimed to escape
Special(s) == \E i \in DOMAIN s : s[i] \in {"<", ">", "&"}

\* The entities of html.escape and the characters they stand for
Entities ==
    { <<"<",  <<"&","l","t",";">> >>,
      <<">",  <<"&","g","t",";">> >>,
      <<"&",  <<"&","a","m","p",";">> >>,
      <<"\"", <<"&","q","u","o","t",";">> >>,
      <<"'",  <<"&","#","x","2","7",";">> >> }

\* out is s with every "<", ">" and "&" written as its entity, and with every
\* other character either kept or, for a quote, written as its entity
RECURSIVE EscapedAs(_, _)
EscapedAs(s, out) ==
    IF s = <<>> THEN out = <<>>
    ELSE \/ /\ s[1] \notin {"<", ">", "&"}
            /\ out # <<>>
            /\ out[1] = s[1]
            /\ EscapedAs(Tail(s), Tail(out))
         \/ \E e \in Entities :
                /\ e[1] = s[1]
                /\ StartsWith(out, e[2])
                /\ EscapedAs(Tail(s), SubSeq(out, Len(e[2]) + 1, Len(out)))

\* b is a: the same dicts with the same keys in the same order, the same
\* lists in the same order, the same numbers and nulls, the same strings
\* where they have no "<", ">" or "&", and the escaped strings where they do
RECURSIVE SanitizedAs(_, _)
SanitizedAs(a, b) ==
    IF a.t = "dict"
    THEN /\ b.t = "dict"
         /\ Len(b.v) = Len(a.v)
         /\ \A i \in DOMAIN a.v :
                b.v[i][1] = a.v[i][1] /\ SanitizedAs(a.v[i][2], b.v[i][2])
    ELSE IF a.t = "list"
    THEN /\ b.t = "list"
         /\ Len(b.v) = Len(a.v)
         /\ \A i \in DOMAIN a.v : SanitizedAs(a.v[i], b.v[i])
    ELSE IF a.t = "str" /\ Special(a.v)
    THEN b.t = "str" /\ EscapedAs(a.v, b.v)
    ELSE b = a

\* Some string leaf of the tree has a "<", ">" or "&"
RECURSIVE HasSpecialLeaf(_)
HasSpecialLeaf(a) ==
    IF a.t = "dict" THEN \E i \in DOMAIN a.v : HasSpecialLeaf(a.v[i][2])
    ELSE IF a.t = "list" THEN \E i \in DOMAIN a.v : HasSpecialLeaf(a.v[i])
    ELSE a.t = "str" /\ Special(a.v)

\* C10: the tree sanitize_article_data returns has the shape of its argument
\* (same keys, same order, numbers and nulls untouched), every string leaf
\* with "<", ">" or "&" has each of them escaped, every other string leaf is
\* unchanged, and changed is true exactly when some string leaf of the
\* argument has a "<", ">" or "&".
C10_SanitizeShapeAndFlag ==
    ret.called =>
        /\ SanitizedAs(arg, ret.val)
        /\ ret.changed <=> HasSpecialLeaf(arg)

\* A nested tree whose only "<" is not in the last child of its list
C10_Witness ==
    /\ ret.called
    /\ arg = JDict(<< <<"header",
                        JList(<< JList(<<JStr(<<"<">>)>>), JStr(<<"a">>) >>)>> >>)
    /\ ret.changed
    /\ ret.val = JDict(<< <<"header",
                        JList(<< JList(<<JStr(<<"&","l","t",";">>)>>), JStr(<<"a">>) >>)>> >>)

(***************************************************************************)
(* Claims about the validation of a published document                     *)
(***************************************************************************)
\* The title of a header, as upload() looks it up
TitleField(header) ==
    IF HasKey(header, "mainHeader") THEN DictGet(header, "mainHeader", JNull)
    ELSE DictGet(header, "name", JNull)

\* A body that is missing or invalid: empty, not an object, or without a
\* header object whose title and date are strings
InvalidArticle(body) ==
    \/ body.t # "dict"
    \/ ~Truthy(body)
    \/ ~HasKey(body, "header")
    \/ DictGet(body, "header", JNull).t # "dict"
    \/ TitleField(DictGet(body, "header", JNull)).t # "str"
    \/ DictGet(DictGet(body, "header", JNull), "date", JNull).t # "str"

\* C11, as claimed: an authenticated, non-throttled publish request whose
\* body is missing or invalid is answered 400 and leaves the content store,
\* its directory included, as it was.
C11_InvalidPublishRejected ==
    [][ (/\ nreq' # nreq
         /\ Reached(last', "upload")
         /\ InvalidArticle(last'.body))
        => (/\ last'.status = 400
            /\ fs' = fs) ]_vars

(***************************************************************************)
(* Claims about what a caller sees of a failed authentication              *)
(***************************************************************************)
\* The checks a request r arriving at time t can fail
MissingHeader(r) == r.hdr = NoHeader

UnknownCredential(r) == r.hdr # NoHeader /\ r.hdr.id # "billard"

MacMismatch(r) ==
    r.hdr.mac # Mac(HawkKey, r.op, r.hdr.ts, r.hdr.nonce, r.body)

OutsideSkew(r, t) ==
    r.hdr.ts - t > TimestampSkew \/ t - r.hdr.ts > TimestampSkew

\* The nonce is on record for the credential and the record has not expired
ReplayedNonce(r, t) ==
    /\ NonceKey(r.hdr.id, r.hdr.nonce) \in DOMAIN nonce_store
    /\ nonce_store[NonceKey(r.hdr.id, r.hdr.nonce)] >= t

FailsAuthentication(r, t) ==
    \/ MissingHeader(r)
    \/ UnknownCredential(r)
    \/ MacMismatch(r)
    \/ OutsideSkew(r, t)
    \/ ReplayedNonce(r, t)

\* C12: a request that fails any check of the authentication (no header,
\* unknown credential id, MAC mismatch, timestamp outside the skew, replayed
\* nonce) is answered with status 401 and the one body of abort(401), so the
\* answers to two requests that fail different checks are the same.
C12_SameUnauthorized ==
    [][ (/\ nreq' # nreq
         /\ FailsAuthentication(last', now))
        => (/\ last'.status = 401
            /\ last'.reply = AbortPage(401)) ]_vars

\* A request with a wrong MAC and a later one that only has a timestamp
\* outside the skew were both answered 401 with the same body
C12_Witness ==
    /\ last.status = 401
    /\ last.reply = AbortPage(401)
    /\ last.hdr.id = "billard"
    /\ ~MacMismatch(last)
    /\ OutsideSkew(last, now)
    /\ \E j \in 1..(Len(hist) - 1) :
           /\ hist[j].status = 401
           /\ hist[j].hdr.id = "billard"
           /\ MacMismatch(hist[j])

(***************************************************************************)
(* SpecStages: one client sends valid, invalid and forged requests until   *)
(* the limiter refuses                                                     *)
(***************************************************************************)
MaxStageRequests == 7

\* A document is published
StagePublish ==
    /\ nreq < MaxStageRequests
    /\ Upload(Client, FreshHeader("upload", UploadBodies[1]), UploadBodies[1])

\* A document without a header object is posted
StagePublishInvalid ==
    /\ nreq < MaxStageRequests
    /\ Upload(Client, FreshHeader("upload", UploadBodies[6]), UploadBodies[6])

\* The published document is removed
StageRemove ==
    /\ nreq < MaxStageRequests
    /\ Remove(Client, FreshHeader("remove", RemoveOf(NameFirst)), RemoveOf(NameFirst))

\* A remove is posted with a filename that has a separator
StageRemoveInvalid ==
    /\ nreq < MaxStageRequests
    /\ Remove(Client, FreshHeader("remove", RemoveBodies[5]), RemoveBodies[5])

\* A request signed with another key
StageForged ==
    \E op \in Endpoints :
        /\ nreq < MaxStageRequests
        /\ Serve(op, Client,
                 Header("billard", "WRONG_KEY", op, now, nreq + 1, BodyOf(op)),
                 BodyOf(op))

NextStages ==
    \/ StagePublish
    \/ StagePublishInvalid
    \/ StageRemove
    \/ StageRemoveInvalid
    \/ StageForged

SpecStages == Init /\ [][NextStages]_vars

\* The events of a trace that belong to the handler
HandlerEvents ==
    {"get_json", "guard", "makedirs", "mkstemp", "write", "realpath",
     "containment", "exists", "replace", "remove", "remove_tmp"}

\* The events that change a file under a final article name
CommitEvents == {"replace", "remove"}

\* Some string of the tree has a "<" or a ">"
RECURSIVE HasMarkup(_)
HasMarkup(a) ==
    IF a.t = "dict" THEN \E i \in DOMAIN a.v : HasMarkup(a.v[i][2])
    ELSE IF a.t = "list" THEN \E i \in DOMAIN a.v : HasMarkup(a.v[i])
    ELSE a.t = "str" /\ \E i \in DOMAIN a.v : a.v[i] \in {"<", ">"}

\* The trace tr passes the stages in order: authentication first, the rate
\* check second, the events of the handler after both, a commit last
StagesInOrder(tr) ==
    /\ Len(tr) >= 1 /\ tr[1] = "auth"
    /\ \A i \in DOMAIN tr :
           /\ (tr[i] = "auth" => i = 1)
           /\ (tr[i] = "rate" => i = 2)
           /\ (tr[i] \in HandlerEvents => (i > 2 /\ tr[2] = "rate"))
           /\ (tr[i] \in CommitEvents => i = Len(tr))

\* C13: every publish or remove request passes authentication, then the rate
\* check, then the validation of the handler, and commits last; a request
\* refused with 401 has not touched the rate store; the files under final
\* article names change only in a request answered 200 or 201 whose trace
\* ends with the commit, and a published document is stored sanitized; a
\* request rejected at any stage leaves every file as it was.
C13_StagesInOrder ==
    [][ nreq' # nreq =>
        /\ StagesInOrder(last'.trace)
        /\ (last'.status = 401 =>
               /\ last'.trace = <<"auth">>
               /\ rate_store' = rate_store
               /\ fs' = fs)
        /\ (last'.status = 429 =>
               /\ last'.trace = <<"auth", "rate">>
               /\ fs' = fs)
        /\ (last'.status \notin {200, 201} => fs'.files = fs.files)
        /\ (fs'.files # fs.files =>
               /\ last'.status \in {200, 201}
               /\ last'.trace[Len(last'.trace)] \in CommitEvents
               /\ (last'.op = "upload" =>
                      /\ last'.file \in DOMAIN fs'.files
                      /\ ~HasMarkup(fs'.files[last'.file].doc))) ]_vars

\* A request was refused by the authentication, one by the handler's
\* validation and the last one by the limiter, after a document with markup
\* had been committed
C13_Witness ==
    /\ last.status = 429
    /\ \E i, j, k \in DOMAIN hist :
           /\ hist[i].status = 401
           /\ hist[j].status \in {400, 500}
           /\ hist[k].status = 201 /\ HasMarkup(hist[k].body)
    /\ NameFirst \in DOMAIN fs.files

(***************************************************************************)
(* SpecLocks: handler threads go through seen_nonce and the limiter line   *)
(* by line, each block under its lock                                      *)
(***************************************************************************)
MaxLockRequests == 6

\* A block entered whether or not another thread is inside
nonce_lock_ignored(holders) == TRUE

\* with _nonce_lock: the block is entered when no other thread is inside
nonce_lock_free(holders) == holders = {}

rate_lock_ignored(holders) == TRUE

\* with _rate_lock: the block is entered when no other thread is inside
rate_lock_free(holders) == holders = {}

\* The positions inside each block
NonceBlock == {"nonce_scan", "nonce_put"}

RateBlock == {"rate_read", "rate_write"}

\* The handlers other than h that are at one of the positions
Others(h, positions) == { o \in Handlers \ {h} : thr[o].pc \in positions }

\* The request every handler of SpecLocks serves
LockOp == "remove"

LockBody == RemoveOf(NameFirst)

\* The answer of handler h goes out
Answer(h, status, out) ==
    /\ thr' = [thr EXCEPT ![h].pc = "idle", ![h].status = status]
    /\ last' = [op |-> LockOp, client |-> Client, hdr |-> thr[h].hdr,
                body |-> LockBody, status |-> status, trace |-> out.trace,
                sanitized |-> FALSE, file |-> out.file,
                reply |-> Reply(status, FALSE,
                                IF status = 401 THEN "AlreadyProcessed" ELSE "none")]
    /\ hist' = Answered(LockOp, Client, thr[h].hdr, LockBody, status)
    /\ pub' = Published(status, out.file, LockBody)

\* A request arrives at handler h, signed by the key holder: with a new
\* nonce, or with the header of a request another handler is serving.
\* Receiver finds the credential and the MAC in order and calls seen_nonce.
Receive(h) ==
    /\ thr[h].pc = "idle"
    /\ nreq < MaxLockRequests
    /\ \E hdr \in {FreshHeader(LockOp, LockBody)}
                  \cup { thr[o].hdr : o \in Others(h, NonceBlock \cup {"nonce_lock"}) } :
           thr' = [thr EXCEPT ![h] = [Waiting EXCEPT !.pc = "nonce_lock", !.hdr = hdr]]
    /\ nreq' = nreq + 1
    /\ UNCHANGED <<now, nonce_store, rate_store, fs, proc, crashes, last, hist, pub,
                   arg, ret>>

\* seen_nonce, line 43: with _nonce_lock
NonceEnter(h) ==
    /\ thr[h].pc = "nonce_lock"
    /\ nonce_lock_free(Others(h, NonceBlock))
    /\ thr' = [thr EXCEPT ![h].pc = "nonce_scan",
                          ![h].nonce_raced =
                              \E o \in Others(h, NonceBlock \cup {"nonce_lock"}) :
                                  thr[o].hdr = thr[h].hdr]
    /\ UNCHANGED <<now, nonce_store, rate_store, fs, proc, crashes, last, nreq, hist,
                   pub, arg, ret>>

\* seen_nonce, lines 45-51: the expired records are deleted; a nonce on
\* record is a replay, Receiver raises and the answer is 401
NonceScan(h) ==
    /\ thr[h].pc = "nonce_scan"
    /\ \E r \in {seen_nonce(nonce_store, thr[h].hdr.id, thr[h].hdr.nonce, now)} :
           IF r.seen
           THEN /\ nonce_store' = r.store
                /\ Answer(h, 401, [trace |-> <<"auth">>, file |-> <<>>])
                /\ UNCHANGED <<now, rate_store, fs, proc, crashes, nreq, arg, ret>>
           ELSE /\ nonce_store' =
                       [n \in DOMAIN r.store
                              \ {NonceKey(thr[h].hdr.id, thr[h].hdr.nonce)} |-> r.store[n]]
                /\ thr' = [thr EXCEPT ![h].pc = "nonce_put"]
                /\ UNCHANGED <<now, rate_store, fs, proc, crashes, last, nreq, hist,
                               pub, arg, ret>>

\* seen_nonce, lines 54-55: the nonce is recorded and the lock is left; the
\* timestamp of the header is the second of its arrival, Receiver returns
NoncePut(h) ==
    /\ thr[h].pc = "nonce_put"
    /\ nonce_store' =
           [n \in DOMAIN nonce_store \cup {NonceKey(thr[h].hdr.id, thr[h].hdr.nonce)} |->
               IF n = NonceKey(thr[h].hdr.id, thr[h].hdr.nonce)
               THEN now + NONCE_TTL ELSE nonce_store[n]]
    /\ thr' = [thr EXCEPT ![h].pc = "rate_lock"]
    /\ UNCHANGED <<now, rate_store, fs, proc, crashes, last, nreq, hist, pub, arg, ret>>

\* rate_limit(...).wrapped, line 69: with _rate_lock
RateEnter(h) ==
    /\ thr[h].pc = "rate_lock"
    /\ rate_lock_free(Others(h, RateBlock))
    /\ thr' = [thr EXCEPT ![h].pc = "rate_read",
                          ![h].rate_raced = Others(h, RateBlock \cup {"rate_lock"}) # {}]
    /\ UNCHANGED <<now, nonce_store, rate_store, fs, proc, crashes, last, nreq, hist,
                   pub, arg, ret>>

\* rate_limit(...).wrapped, lines 70-74: count and reset of the key, of a new
\* window when the old one is over
rate_window(store, key, t) ==
    IF key \in DOMAIN store /\ ~(t > store[key].reset)
    THEN store[key]
    ELSE [count |-> 0, reset |-> t + window_seconds]

\* rate_limit(...).wrapped, lines 70-78: the locals are read; at the ceiling
\* the answer is 429
RateRead(h) ==
    /\ thr[h].pc = "rate_read"
    /\ \E win \in {rate_window(rate_store, RateKey(Client, LockOp), now)} :
           IF win.count >= max_requests
           THEN /\ Answer(h, 429, [trace |-> <<"auth", "rate">>, file |-> <<>>])
                /\ UNCHANGED <<now, nonce_store, rate_store, fs, proc, crashes, nreq,
                               arg, ret>>
           ELSE /\ thr' = [thr EXCEPT ![h].pc = "rate_write",
                                      ![h].count = win.count, ![h].reset = win.reset]
                /\ UNCHANGED <<now, nonce_store, rate_store, fs, proc, crashes, last,
                               nreq, hist, pub, arg, ret>>

\* rate_limit(...).wrapped, line 80: the request is counted and the lock left
RateWrite(h) ==
    /\ thr[h].pc = "rate_write"
    /\ rate_store' =
           [k \in DOMAIN rate_store \cup {RateKey(Client, LockOp)} |->
               IF k = RateKey(Client, LockOp)
               THEN [count |-> thr[h].count + 1, reset |-> thr[h].reset]
               ELSE rate_store[k]]
    /\ thr' = [thr EXCEPT ![h].pc = "handler"]
    /\ UNCHANGED <<now, nonce_store, fs, proc, crashes, last, nreq, hist, pub, arg, ret>>

\* rate_limit(...).wrapped, line 82: f() runs and answers
Handle(h) ==
    /\ thr[h].pc = "handler"
    /\ \E r \in {remove(LockBody, fs)} :
           /\ fs' = r.fs
           /\ Answer(h, r.status,
                     [trace |-> <<"auth", "rate">> \o r.trace, file |-> r.file])
    /\ UNCHANGED <<now, nonce_store, rate_store, proc, crashes, nreq, arg, ret>>

NextLocks ==
    \E h \in Handlers :
        \/ Receive(h)
        \/ NonceEnter(h)
        \/ NonceScan(h)
        \/ NoncePut(h)
        \/ RateEnter(h)
        \/ RateRead(h)
        \/ RateWrite(h)
        \/ Handle(h)

SpecLocks == Init /\ [][NextLocks]_vars

\* The requests the limiter has let through for the key so far: those whose
\* answer is neither 401 nor 429, and those whose handler is running
AllowedFor(k) ==
    Cardinality({ j \in DOMAIN hist :
                    /\ RateKey(hist[j].client, hist[j].op) = k
                    /\ hist[j].status \notin {401, 429} })
    + Cardinality({ h \in Handlers :
                      thr[h].pc = "handler" /\ RateKey(Client, LockOp) = k })

\* C14: however the handler threads interleave, the count stored for a rate
\* key is at most max_requests, and within the one window that is open (the
\* clock stands still) the limiter lets at most max_requests requests of the
\* key through.
C14_CeilingUnderConcurrency ==
    \A k \in DOMAIN rate_store :
        /\ rate_store[k].count <= max_requests
        /\ AllowedFor(k) <= max_requests

\* The window is full, and of two handlers that were at the limiter's lock
\* together one was let through and the other answered 429
C14_Witness ==
    /\ RateKey(Client, LockOp) \in DOMAIN rate_store
    /\ rate_store[RateKey(Client, LockOp)].count = max_requests
    /\ AllowedFor(RateKey(Client, LockOp)) = max_requests
    /\ \E a, b \in Handlers :
           /\ thr[a].pc = "idle" /\ thr[a].status = 429
           /\ thr[b].pc = "idle" /\ thr[b].status \notin {0, 401, 429}
           /\ (thr[a].rate_raced \/ thr[b].rate_raced)

\* The positions of a handler that seen_nonce has told the nonce is unseen
PastNonceCheck == {"nonce_put", "rate_lock", "rate_read", "rate_write", "handler"}

\* The calls of seen_nonce for the header that reported the nonce unseen:
\* the answered requests that were not refused with 401 and the handlers
\* that have passed the test
Unseen(hdr) ==
    Cardinality({ j \in DOMAIN hist : hist[j].hdr = hdr /\ hist[j].status # 401 })
    + Cardinality({ h \in Handlers : thr[h].hdr = hdr /\ thr[h].pc \in PastNonceCheck })

\* The handlers that have called seen_nonce for the header and have no
\* result yet
Calling(hdr) ==
    { h \in Handlers : thr[h].hdr = hdr /\ thr[h].pc \in {"nonce_lock", "nonce_scan"} }

\* The headers received so far
Received ==
    ({ hist[j].hdr : j \in DOMAIN hist } \cup { thr[h].hdr : h \in Handlers })
        \ {NoHeader}

\* C15: of the calls of seen_nonce with one (credential id, nonce), made at
\* the same second by any number of handler threads, at most one has reported
\* the nonce unseen at any time, and once every call has returned exactly
\* one has: all others reported a replay and were answered 401.
C15_OneUnseenPerNonce ==
    \A hdr \in Received :
        /\ Unseen(hdr) <= 1
        /\ (Calling(hdr) = {} => Unseen(hdr) = 1)

\* Two handlers were in seen_nonce with the same header at the same time;
\* one was let through and the other answered 401
C15_Witness ==
    \E a, b \in Handlers :
        /\ a # b
        /\ thr[a].hdr = thr[b].hdr /\ thr[a].hdr # NoHeader
        /\ thr[a].pc = "idle" /\ thr[a].status \notin {0, 401}
        /\ thr[b].pc = "idle" /\ thr[b].status = 401
        /\ (thr[a].nonce_raced \/ thr[b].nonce_raced)

(***************************************************************************)
(* Claims about parsing the names of stored files                          *)
(***************************************************************************)
\* C16, as claimed: for every file a publish has stored,
\* parse_article_filename returns the slug, the month and the day its name
\* was built from, and the listing, whatever the order of enumeration, has
\* an entry for the file under that slug.
C16_ParseInvertsEncoding ==
    \A n \in DOMAIN pub :
        \E slug \in {ExpectedSlug(TitleOf(pub[n]))} :
        \E md \in {ExpectedMonthDay(pub[n])} :
            /\ parse_article_filename(n)
                   = [ok |-> TRUE, name |-> slug, month |-> md[1], day |-> md[2]]
            /\ \A order \in Orders(DOMAIN fs.files) :
                   \E r \in {get_all_articles(fs, order, now)} :
                       \E i \in DOMAIN r.articles :
                           /\ r.articles[i].filename = n
                           /\ r.articles[i].slug = slug

(***************************************************************************)
(* Claims about the order of the containment check and the disk            *)
(***************************************************************************)
\* The events of upload() that create or write something in the articles
\* directory, the directory itself included
DiskEvents == {"makedirs", "mkstemp", "write", "replace"}

\* C17, as claimed: in a publish request every event that touches the disk
\* (os.makedirs, mkstemp, the write of the document, os.replace) comes after
\* the containment check of the final path.
C17_ContainmentBeforeDisk ==
    last.op = "upload" =>
        \A i \in DOMAIN last.trace :
            last.trace[i] \in DiskEvents
                => \E j \in 1..(i - 1) : last.trace[j] = "containment"

(***************************************************************************)
(* Claims about what remove changes                                        *)
(***************************************************************************)
\* The body names a valid file: a string without "..", "/" or "\" that ends
\* in .json once the characters outside A-Z a-z 0-9 _ - . are stripped
ValidFilename(body) ==
    /\ HasFilename(body)
    /\ ~Traverses(Supplied(body))
    /\ EndsWith(SafePart(Supplied(body)), DotJson)

\* The files of g are those of f without the file `name`, untouched
Without(f, g, name) ==
    /\ g.dir = f.dir
    /\ DOMAIN g.files = DOMAIN f.files \ {name}
    /\ \A m \in DOMAIN g.files : g.files[m] = f.files[m]

\* C18: an authenticated, non-throttled remove request with a valid filename
\* deletes the file it resolves to when it exists, answers 200 and leaves
\* every other file as it was; when the file does not exist it answers 404
\* and leaves the store as it was. A remove request that names the file of a
\* successful publish is answered 200 and, when the name was absent before
\* the publish, leaves the files of the store as they were before it.
C18_RemoveFrame ==
    [][ /\ (/\ nreq' # nreq
            /\ Reached(last', "remove")
            /\ ValidFilename(last'.body))
           => IF SafePart(Supplied(last'.body)) \in DOMAIN fs.files
              THEN /\ last'.status = 200
                   /\ Without(fs, fs', SafePart(Supplied(last'.body)))
              ELSE /\ last'.status = 404
                   /\ fs' = fs
        /\ (/\ nreq' # nreq
            /\ last'.op = "upload"
            /\ last'.status = 201)
           => \E r \in {remove(RemoveOf(last'.file), fs')} :
                  /\ r.status = 200
                  /\ Without(fs', r.fs, last'.file)
                  /\ (last'.file \notin DOMAIN fs.files => r.fs.files = fs.files)
      ]_vars

\* The document published by the request before was removed by the last
\* request, and the other document of the store is still there
C18_Witness ==
    /\ last.op = "remove" /\ last.status = 200
    /\ SafePart(Supplied(last.body)) = NameFirst
    /\ Len(hist) >= 2
    /\ hist[Len(hist) - 1].op = "upload"
    /\ hist[Len(hist) - 1].status = 201
    /\ hist[Len(hist) - 1].body = UploadBodies[1]
    /\ NameFirst \notin DOMAIN fs.files
    /\ DOMAIN fs.files # {}

(***************************************************************************)
(* SpecBurst: one client sends removes at the edges of the windows         *)
(***************************************************************************)
MaxBurstRequests == 12

\* The instants the clock of SpecBurst stops at: around the end of a window
\* that began at 0 or at 1, and of the one after it
BurstInstants ==
    {1, window_seconds, window_seconds + 1, window_seconds + 2,
     2 * window_seconds + 1, 2 * window_seconds + 2}

\* Client removes once more
Burst ==
    /\ nreq < MaxBurstRequests
    /\ Remove(Client, FreshHeader("remove", BodyOf("remove")), BodyOf("remove"))

NextBurst ==
    \/ Burst
    \/ Tick(BurstInstants)

SpecBurst == Init /\ [][NextBurst]_vars

\* The requests from the i-th to the j-th answered one that the limiter let
\* through under the key of the j-th
AllowedBetween(i, j) ==
    { k \in i..j : SameKey(hist[j], k) /\ hist[k].status # 429 }

\* C19: of the requests of one key that arrive within any span of time no
\* longer than window_seconds, the limiter lets at most 2 * max_requests
\* through, wherever the span lies across the windows.
C19_BurstAtMostTwiceCeiling ==
    \A i, j \in DOMAIN hist :
        (/\ i <= j
         /\ hist[j].status # 401
         /\ hist[j].t - hist[i].t <= window_seconds)
        => Cardinality(AllowedBetween(i, j)) <= 2 * max_requests

\* More requests than one window allows were let through within two
\* seconds: the last ones of a window and the first ones of the next
C19_Witness ==
    \E i, j \in DOMAIN hist :
        /\ i <= j
        /\ hist[j].t - hist[i].t < 2
        /\ WindowStart(i) # WindowStart(j)
        /\ Cardinality(AllowedBetween(i, j)) = 2 * max_requests - 1

(***************************************************************************)
(* Claims about replays after the nonce record has expired                 *)
(***************************************************************************)
\* C20, as claimed: a header that was accepted once is refused whenever it is
\* presented again, however much later: by the time its nonce record has
\* been purged its timestamp is outside the skew.
C20_AcceptedOnceNeverAgain ==
    \A j, k \in DOMAIN hist :
        (/\ j < k
         /\ hist[j].status # 401
         /\ hist[k].hdr = hist[j].hdr)
        => hist[k].status = 401

(***************************************************************************)
(* SpecCollide: documents whose titles or years differ are published one   *)
(* after the other                                                         *)
(***************************************************************************)
MaxCollidePublishes == 3

TitleShout ==
    <<"M","y"," ","F","i","r","s","t"," ","P","o","s","t","!">>

DateNextYear ==
    <<"D","e","c","e","m","b","e","r"," ","2","4",","," ","2","0","2",
        "5">>

\* The documents posted in SpecCollide: one, the same with other content,
\* one a year later, one with another title, and an unrelated one
CollideBodies == <<
    Article("mainHeader", TitleFirst, DateFirst, TextA),
    Article("mainHeader", TitleFirst, DateFirst, TextB),
    Article("mainHeader", TitleFirst, DateNextYear, TextPlain),
    Article("mainHeader", TitleShout, DateFirst, TextPlain),
    Article("mainHeader", TitleNew, DateNew, TextPlain) >>

PublishColliding ==
    \E i \in DOMAIN CollideBodies :
        /\ nreq < MaxCollidePublishes
        /\ Upload(Client, FreshHeader("upload", CollideBodies[i]), CollideBodies[i])

NextCollide == PublishColliding \/ Tick(Later)

SpecCollide == Init /\ [][NextCollide]_vars

\* The stored item n is replaced or gone after the step
Replaced(n) ==
    \/ n \notin DOMAIN fs'.files
    \/ n = last'.file
    \/ fs'.files[n] # fs.files[n]

\* C21, as claimed: a successful publish replaces a stored item only when
\* its document has the title and the publication date, year included, of
\* the document the item was published from; no other stored item is
\* replaced or lost.
C21_OverwriteOnlySameTitleAndDate ==
    [][ (/\ nreq' # nreq
         /\ last'.op = "upload"
         /\ last'.status = 201)
        => \A n \in DOMAIN fs.files :
               Replaced(n) =>
                   /\ n \in DOMAIN pub
                   /\ TitleOf(pub[n]) = TitleOf(last'.body)
                   /\ SubmittedDate(pub[n]) = SubmittedDate(last'.body) ]_vars

(***************************************************************************)
(* SpecResan: the tree sanitize_article_data returned is sanitized again   *)
(***************************************************************************)
\* sanitized, changed = sanitize_article_data(sanitized): the result of the
\* first call, as upload() stored it, is handed in again
Resanitize ==
    /\ ret.called
    /\ arg \in Trees
    /\ arg' = ret.val
    /\ \E r \in {sanitize_article_data(ret.val)} :
           ret' = [val |-> r.val, changed |-> r.changed, called |-> TRUE]
    /\ UNCHANGED <<now, nonce_store, rate_store, fs, proc, crashes, last, nreq,
                   hist, pub, thr>>

NextResan == Sanitize \/ Resanitize

SpecResan == InitSan /\ [][NextResan]_vars

\* C22, as claimed: sanitizing a tree that sanitize_article_data returned
\* gives the same tree back with changed = false.
C22_SanitizeIdempotent ==
    [][ (ret.called /\ ret'.called)
        => (ret'.val = ret.val /\ ~ret'.changed) ]_vars

=============================================================================
